---- MODULE Spec2Model ----
(***************************************************************************)
(* Session state of the web IRC client: the React state of IrcClient       *)
(* (src/src/components/irc-client.tsx), the IrcService that translates     *)
(* transport events into callbacks (src/src/services/irc-service.ts), and  *)
(* the transport clients (irc-framework) the service creates.              *)
(*                                                                         *)
(* Strings are sequences of one-character strings, so that toLowerCase,    *)
(* startsWith and template concatenation are computed as the code does.    *)
(* An absent optional string (null, undefined) is the empty sequence: the  *)
(* code only ever tests such values for truthiness.                        *)
(***************************************************************************)
EXTENDS Integers, Sequences, FiniteSets, TLC

VARIABLES
    activeServer,        \* useState<ServerConnection|null>: <<>> or <<record>>
    channels,            \* useState<Channel[]>
    availableChannels,   \* useState<AvailableChannelInfo[]>
    serverLogMessages,   \* useState<Message[]>
    activeChannelId,     \* useState<string|null>
    isListingChannels,   \* useState<boolean>
    rendered,            \* the state captured by the handlers' closures (last commit)
    svcClient,           \* IrcService.client: 0 (null) or an index into clients
    svcServerId,         \* IrcService.serverId
    svcCurrentNick,      \* IrcService.currentNick
    clients,             \* every IRC.Client created so far, with its transport state
    internalEvents,      \* what the library does on client.internalEvents.emit,
                         \* "unknown" until the code first relies on it
    last                 \* the handler that ran last and what it forwarded

vars == <<activeServer, channels, availableChannels, serverLogMessages,
          activeChannelId, isListingChannels, rendered,
          svcClient, svcServerId, svcCurrentNick, clients, internalEvents, last>>

-----------------------------------------------------------------------------
(* Bounds of the model.                                                    *)

MaxClients == 1      \* IRC.Client objects created in one run of Spec
MaxLog == 3          \* length of the server log
MaxChannels == 2     \* entries of the channel list
MaxMsgs == 2         \* messages of one channel
MaxAvail == 3        \* entries of the discovery list
MaxUsers == 2        \* members of one channel

-----------------------------------------------------------------------------
(* Strings.                                                                *)

UpperChars == <<"A", "B", "C", "D", "E", "F", "G", "H", "I", "J", "K", "L", "M",
                "N", "O", "P", "Q", "R", "S", "T", "U", "V", "W", "X", "Y", "Z">>
LowerChars == <<"a", "b", "c", "d", "e", "f", "g", "h", "i", "j", "k", "l", "m",
                "n", "o", "p", "q", "r", "s", "t", "u", "v", "w", "x", "y", "z">>

LowerChar(c) ==
    IF \E i \in DOMAIN UpperChars : UpperChars[i] = c
    THEN LowerChars[CHOOSE i \in DOMAIN UpperChars : UpperChars[i] = c]
    ELSE c

\* String.prototype.toLowerCase
ToLowerCase(s) == [i \in 1..Len(s) |-> LowerChar(s[i])]

\* s.startsWith('#')
StartsWithHash(s) == Len(s) > 0 /\ s[1] = "#"

Digits == <<"0", "1", "2", "3", "4", "5", "6", "7", "8", "9">>

\* the decimal text of a port number, as a template literal prints it
RECURSIVE DecStr(_)
DecStr(n) == IF n < 10 THEN <<Digits[n + 1]>>
             ELSE DecStr(n \div 10) \o <<Digits[(n % 10) + 1]>>

\* `${details.host}:${details.port}`
ServerIdOf(details) == details.host \o <<":">> \o DecStr(details.port)

-----------------------------------------------------------------------------
(* Inputs.                                                                 *)

\* connect-dialog submissions: two servers, one nickname
ConnectInputs ==
    { [host |-> <<"x">>, port |-> 7, nickname |-> <<"b", "o">>],
      [host |-> <<"y">>, port |-> 7, nickname |-> <<"b", "o">>] }

\* text typed into the join box, or a name clicked in the discovery list
JoinInputs == { <<"#", "a">>, <<"#", "A">>, <<"b">> }

\* error.type of an 'error' event; an event without a type is reported as UnknownError
ErrorTypes == { "ErrorLookingUpHost", "SocketError", "ConnectionRefused", "UnknownError" }

\* What `this.client.internalEvents.emit('close', ...)` does is decided by the
\* transport library, which is not part of the repository: the property may be
\* absent (the call throws), an emitter of its own (no listener of the client
\* runs), or the client's own emitter (the service's 'close' listener runs).
InternalEventsOutcomes == { "absent", "separate", "client" }

\* 'message' events: a channel message or a private message to the own nickname
MessageEvents ==
    { [nick |-> <<"a", "l">>, target |-> <<"#", "A">>],
      [nick |-> <<"A", "l">>, target |-> <<"b", "o">>],
      [nick |-> <<"a", "l">>, target |-> <<"b", "o">>] }

\* 'channel list item' events
ListItemEvents ==
    { [channel |-> <<"#", "a">>, users |-> <<5>>],
      [channel |-> <<"#", "B">>, users |-> <<>>] }

\* a richer reply to a list request: equal and different counts, entries
\* without a count, names that differ in case
DiscoveryItems ==
    ListItemEvents \cup
    { [channel |-> <<"#", "b">>, users |-> <<10>>],
      [channel |-> <<"#", "A">>, users |-> <<5>>],
      [channel |-> <<"#", "c">>, users |-> <<>>],
      [channel |-> <<"#", "a">>, users |-> <<>>] }

\* membership events: for the joined channel '#a' (spelled '#A' by the
\* server) and for '#c', which the client never joins
JoinEvents ==
    { [nick |-> <<"a", "l">>, channel |-> <<"#", "A">>],
      [nick |-> <<"A", "l">>, channel |-> <<"#", "a">>],
      [nick |-> <<"b", "o">>, channel |-> <<"#", "c">>] }

PartEvents ==
    { [nick |-> <<"a", "l">>, channel |-> <<"#", "A">>],
      [nick |-> <<"a", "l">>, channel |-> <<"#", "c">>] }

QuitEvents ==
    { [nick |-> <<"A", "l">>, channels |-> <<<<"#", "A">>>>],
      [nick |-> <<"a", "l">>, channels |-> <<<<"#", "c">>>>],
      [nick |-> <<"a", "l">>, channels |-> <<<<"#", "a">>, <<"#", "b">>>>] }

NickEvents ==
    { [nick |-> <<"A", "l">>, new_nick |-> <<"c", "y">>, channels |-> <<<<"#", "c">>>>],
      [nick |-> <<"a", "l">>, new_nick |-> <<"B", "o">>, channels |-> <<<<"#", "A">>>>] }

TopicEvents ==
    { [channel |-> <<"#", "A">>, topic |-> <<"t">>, nick |-> <<"a", "l">>],
      [channel |-> <<"#", "c">>, topic |-> <<"t">>, nick |-> <<"a", "l">>] }

UserListEvents ==
    { [channel |-> <<"#", "A">>, users |-> << <<"b", "o">>, <<"a", "l">> >>],
      [channel |-> <<"#", "c">>, users |-> << <<"a", "l">> >>] }

ModeEvents ==
    { [target |-> <<"#", "A">>, nick |-> <<"a", "l">>, modes |-> "+o al"],
      [target |-> <<"#", "c">>, nick |-> <<"a", "l">>, modes |-> "+o al"],
      [target |-> <<"b", "o">>, nick |-> <<"b", "o">>, modes |-> "+i"] }

KickEvents ==
    { [channel |-> <<"#", "A">>, kicked |-> <<"a", "l">>, nick |-> <<"b", "o">>,
       message |-> "spam"],
      [channel |-> <<"#", "c">>, kicked |-> <<"b", "o">>, nick |-> <<"a", "l">>,
       message |-> ""] }

\* slash commands typed into the message input
SlashInputs ==
    { <<"/", "n", "o", "t", "i", "c", "e", " ", "a", "l">>,
      <<"/", "n", "o", "t", "i", "c", "e", " ", "a", "l", " ", "h", "i">>,
      <<"/", "q", "u", "e", "r", "y", " ", "a", "l">> }

\* the server's confirmation of the session's own join of '#a'
OwnJoinEvents ==
    { [nick |-> <<"b", "o">>, channel |-> <<"#", "A">>],
      [nick |-> <<"B", "o">>, channel |-> <<"#", "a">>] }

\* events about the session's own nickname 'bo'
OwnNickEvents ==
    { [nick |-> <<"B", "o">>, new_nick |-> <<"c", "y">>, channels |-> <<<<"#", "A">>>>],
      [nick |-> <<"c", "y">>, new_nick |-> <<"b", "o">>, channels |-> <<<<"#", "A">>>>] }

OwnKickEvents ==
    { [channel |-> <<"#", "A">>, kicked |-> <<"B", "o">>, nick |-> <<"a", "l">>,
       message |-> "spam"],
      [channel |-> <<"#", "A">>, kicked |-> <<"c", "y">>, nick |-> <<"a", "l">>,
       message |-> ""] }

\* nicknames saved in the settings dialog
SettingsInputs == { <<"b", "o">>, <<"c", "y">> }

\* texts of the message input (trimmed and not empty)
SendInputs == { <<"h", "i">>, <<"/", "m", "e", " ", "x">> }

-----------------------------------------------------------------------------
(* Messages.                                                               *)

NoStr == <<>>

Msg(type, nickname, kind, a, b, channelId, target, isSelf) ==
    [type |-> type, nickname |-> nickname,
     content |-> [kind |-> kind, a |-> a, b |-> b],
     channelId |-> channelId, target |-> target, isSelf |-> isSelf]

\* the server-log entries the client itself writes
AttemptMsg(host, serverId) ==
    Msg("info", NoStr, "Attempting to connect to", host, "", serverId, serverId, FALSE)
ConnectedMsg(serverId) ==
    Msg("info", NoStr, "Connected to", serverId, "", serverId, serverId, FALSE)
DisconnectedMsg(serverId, reason) ==
    Msg("info", NoStr, "Disconnected from", serverId, reason, serverId, serverId, FALSE)
ErrorMsg(serverId, errType) ==
    Msg("error", NoStr, "Error on", serverId, errType, serverId, serverId, FALSE)

-----------------------------------------------------------------------------
(* The world a handler runs in: the latest React state (functional updates  *)
(* apply to it in order), the service's fields, the transport clients, and  *)
(* what the handler has forwarded or thrown so far.                         *)

World ==
    [activeServer |-> activeServer, channels |-> channels,
     availableChannels |-> availableChannels,
     serverLogMessages |-> serverLogMessages,
     activeChannelId |-> activeChannelId,
     isListingChannels |-> isListingChannels,
     svcClient |-> svcClient, svcServerId |-> svcServerId,
     svcCurrentNick |-> svcCurrentNick, clients |-> clients,
     sent |-> <<>>, signals |-> <<>>, viewSignals |-> <<>>,
     threw |-> FALSE, ieUsed |-> FALSE]

Snapshot(w) ==
    [activeServer |-> w.activeServer, channels |-> w.channels,
     activeChannelId |-> w.activeChannelId]

ConnStateOf(as) ==
    IF as = <<>> THEN "Disconnected"
    ELSE IF as[1].isConnecting THEN "Connecting"
    ELSE IF as[1].isConnected THEN "Connected"
    ELSE "Disconnected"

connectionState == ConnStateOf(activeServer)

Send(w, cmd, arg) ==
    [w EXCEPT !.sent = Append(@, [cmd |-> cmd, client |-> w.svcClient, arg |-> arg])]

-----------------------------------------------------------------------------
(* The transport clients (irc-framework's IRC.Client), as far as the        *)
(* service depends on them: the `connected` flag, whether the service's     *)
(* listeners are still attached, and which events the client may still      *)
(* emit.                                                                    *)

NewClient(serverId) ==
    [serverId |-> serverId,      \* the serverId captured by registerEvents
     connected |-> FALSE,        \* client.connected
     listeners |-> TRUE,         \* false after removeAllListeners()
     phase |-> "connecting",     \* connecting, open, registered, failed, down
     quitReason |-> "",          \* the reason of the QUIT sent through it, if any
     closeEmitted |-> FALSE, socketCloseEmitted |-> FALSE]

-----------------------------------------------------------------------------
(* Callbacks of IrcClient (serviceCallbacksImpl). rc is the state captured  *)
(* by the callback's closure; w holds the state the updater functions see.  *)

SvcListChannels(w) ==
    IF w.svcClient # 0 /\ w.clients[w.svcClient].connected
    THEN Send(w, "list", NoStr)
    ELSE w

OnConnect(w, serverId) ==
    LET w1 == [w EXCEPT
                 !.activeServer =
                     IF @ # <<>> /\ @[1].id = serverId
                     THEN <<[@[1] EXCEPT !.isConnected = TRUE, !.isConnecting = FALSE]>>
                     ELSE @,
                 !.serverLogMessages = Append(@, ConnectedMsg(serverId))]
    IN  SvcListChannels(w1)

\* variant: a disconnect notification that forgets the discovery list
OnDisconnectKeepsDiscovery(w, serverId, reason) ==
    [w EXCEPT
       !.activeServer =
           IF @ # <<>> /\ @[1].id = serverId
           THEN <<[@[1] EXCEPT !.isConnected = FALSE, !.isConnecting = FALSE]>>
           ELSE <<>>,
       !.serverLogMessages = Append(@, DisconnectedMsg(serverId, reason)),
       !.channels = <<>>,
       !.activeChannelId = NoStr]

OnDisconnect(w, serverId, reason) ==
    [w EXCEPT
       !.activeServer =
           IF @ # <<>> /\ @[1].id = serverId
           THEN <<[@[1] EXCEPT !.isConnected = FALSE, !.isConnecting = FALSE]>>
           ELSE <<>>,
       !.serverLogMessages = Append(@, DisconnectedMsg(serverId, reason)),
       !.channels = <<>>,
       !.availableChannels = <<>>,
       !.activeChannelId = NoStr]

\* variant: ConnectionRefused is not treated as fatal
IsConnectionClassNarrow(errType) ==
    errType = "ErrorLookingUpHost" \/ errType = "SocketError"

IsConnectionClass(errType) ==
    errType = "ErrorLookingUpHost" \/ errType = "SocketError" \/ errType = "ConnectionRefused"

OnError(w, serverId, errType) ==
    LET w1 == [w EXCEPT !.serverLogMessages = Append(@, ErrorMsg(serverId, errType))]
    IN  IF IsConnectionClass(errType)
        THEN [w1 EXCEPT
                !.activeServer =
                    IF @ # <<>> /\ @[1].id = serverId
                    THEN <<[@[1] EXCEPT !.isConnected = FALSE, !.isConnecting = FALSE]>>
                    ELSE <<>>]
        ELSE w1

-----------------------------------------------------------------------------
(* IrcService: the listeners registerEvents attaches to client c, and the   *)
(* public methods.                                                          *)

SvcOnRegistered(w, c) ==
    SvcListChannels(OnConnect(w, w.clients[c].serverId))

SvcOnClose(w, c, reason) ==
    LET serverId == w.clients[c].serverId
        r == IF reason # "" THEN reason ELSE "Connection closed"
    IN  IF w.svcServerId = serverId
        THEN [OnDisconnect(w, serverId, r) EXCEPT !.svcClient = 0]
        ELSE w

SvcOnSocketClose(w, c) ==
    LET serverId == w.clients[c].serverId
    IN  IF w.svcClient # 0 /\ w.svcServerId = serverId
        THEN [OnDisconnect(w, serverId, "Socket closed abruptly") EXCEPT !.svcClient = 0]
        ELSE w

SvcOnError(w, c, errType) ==
    LET serverId == w.clients[c].serverId
    IN  IF w.svcServerId = serverId THEN OnError(w, serverId, errType) ELSE w

\* disconnect(reason); ie is what internalEvents.emit turns out to do
SvcDisconnect(w, reason, ie) ==
    LET c == w.svcClient
        emitted == IF ie = "client" /\ w.clients[c].listeners
                   THEN SvcOnClose(w, c, reason)
                   ELSE w
        w1 == IF c = 0 THEN w
              ELSE IF w.clients[c].connected
                   THEN Send([w EXCEPT !.clients[c].quitReason = reason], "quit", NoStr)
              ELSE IF ie = "absent" THEN [w EXCEPT !.threw = TRUE, !.ieUsed = TRUE]
              ELSE IF emitted.svcClient = 0
                   THEN [emitted EXCEPT !.threw = TRUE, !.ieUsed = TRUE]  \* removeAllListeners of null
                   ELSE [emitted EXCEPT !.clients[c].listeners = FALSE, !.ieUsed = TRUE]
    IN  IF w1.threw THEN w1
        ELSE [w1 EXCEPT !.svcClient = 0, !.svcServerId = NoStr, !.svcCurrentNick = NoStr]

\* connect(details)
SvcConnect(w, details, ie) ==
    LET w1 == IF w.svcClient # 0 THEN SvcDisconnect(w, "Reconnecting...", ie) ELSE w
        n  == Len(w1.clients) + 1
        w2 == [w1 EXCEPT !.clients = Append(@, NewClient(details.id)),
                         !.svcClient = n,
                         !.svcServerId = details.id,
                         !.svcCurrentNick = details.nickname]
    IN  IF w1.threw THEN w1 ELSE Send(w2, "connect", details.id)

-----------------------------------------------------------------------------
(* Channels.                                                               *)

User(nick) == [id |-> nick, nickname |-> nick]

\* variant: an existence check that never finds the channel
HasIdNever(chs, id) == FALSE

HasId(chs, id) == \E i \in DOMAIN chs : chs[i].id = id

\* String.prototype.trim, for the blanks of the inputs
RECURSIVE TrimLeft(_)
TrimLeft(s) == IF Len(s) > 0 /\ s[1] = " " THEN TrimLeft(Tail(s)) ELSE s
RECURSIVE TrimRight(_)
TrimRight(s) == IF Len(s) > 0 /\ s[Len(s)] = " "
                THEN TrimRight(SubSeq(s, 1, Len(s) - 1)) ELSE s
Trim(s) == TrimRight(TrimLeft(s))

\* prev.filter(c => c.id !== id)
RECURSIVE WithoutId(_, _)
WithoutId(chs, id) ==
    IF chs = <<>> THEN <<>>
    ELSE IF Head(chs).id = id THEN WithoutId(Tail(chs), id)
    ELSE <<Head(chs)>> \o WithoutId(Tail(chs), id)

\* onChannelMessage
OnChannelMessage(w, rc, serverId, message) ==
    LET channelExists == HasId(w.channels, message.channelId)
        updatedChannels ==
            [i \in DOMAIN w.channels |->
                IF w.channels[i].id = message.channelId
                THEN [w.channels[i] EXCEPT !.messages = Append(@, message)]
                ELSE w.channels[i]]
        pmUserNick == IF message.isSelf THEN message.target ELSE message.nickname
        newPmChannel ==
            [id |-> message.channelId, serverId |-> serverId, name |-> pmUserNick,
             users |-> <<User(rc.activeServer[1].nickname), User(pmUserNick)>>,
             messages |-> <<message>>,
             topic |-> [kind |-> "Private messages with", a |-> pmUserNick, setter |-> NoStr]]
    IN  IF ~channelExists /\ ~StartsWithHash(message.target)
           /\ rc.activeServer # <<>> /\ message.nickname # NoStr
        THEN [w EXCEPT !.channels = Append(updatedChannels, newPmChannel)]
        ELSE [w EXCEPT !.channels = updatedChannels]

\* the 'message' listener
SvcOnMessage(w, rc, c, event) ==
    LET serverId == w.clients[c].serverId
    IN  IF StartsWithHash(event.target)
        THEN OnChannelMessage(w, rc, serverId,
                 Msg("message", event.nick, "text", NoStr, "",
                     serverId \o ToLowerCase(event.target), ToLowerCase(event.target),
                     ToLowerCase(event.nick) = ToLowerCase(w.svcCurrentNick)))
        ELSE OnChannelMessage(w, rc, serverId,
                 Msg("message", event.nick, "text", NoStr, "",
                     serverId \o ToLowerCase(event.nick), ToLowerCase(event.nick),
                     FALSE))

\* onAvailableChannelItem, from the 'channel list item' listener
SvcOnChannelListItem(w, c, event) ==
    LET serverId == w.clients[c].serverId
    IN  [w EXCEPT !.availableChannels =
            Append(@, [id |-> serverId \o ToLowerCase(event.channel),
                       serverId |-> serverId, name |-> event.channel,
                       userCount |-> event.users])]

\* IrcService.joinChannel / partChannel
SvcJoinChannel(w, channelName) ==
    IF w.svcClient # 0 /\ w.clients[w.svcClient].connected /\ channelName # NoStr
    THEN Send(w, "join", IF StartsWithHash(channelName) THEN channelName
                         ELSE <<"#">> \o channelName)
    ELSE w

SvcPartChannel(w, channelName) ==
    IF w.svcClient # 0 /\ w.clients[w.svcClient].connected
    THEN Send(w, "part", channelName)
    ELSE w

-----------------------------------------------------------------------------
(* Membership, topic, mode and kick callbacks. A message's content is ''    *)
(* for join, part, quit and nick messages (no reason is given in the        *)
(* events below); the oldNickname of a nick message is kept in content.a.   *)

\* variant: nicknames are compared as written
HasNickExact(users, nick) ==
    \E i \in DOMAIN users : users[i].nickname = nick

HasNick(users, nick) ==
    \E i \in DOMAIN users : ToLowerCase(users[i].nickname) = ToLowerCase(nick)

\* users.filter(u => u.nickname.toLowerCase() !== nick.toLowerCase())
RECURSIVE WithoutNick(_, _)
WithoutNick(users, nick) ==
    IF users = <<>> THEN <<>>
    ELSE IF ToLowerCase(Head(users).nickname) = ToLowerCase(nick)
         THEN WithoutNick(Tail(users), nick)
    ELSE <<Head(users)>> \o WithoutNick(Tail(users), nick)

EventMsg(type, nickname, channelId, target) ==
    Msg(type, nickname, "", NoStr, "", channelId, target, FALSE)

\* variant: the user is added without looking at the members
OnUserJoinedChannelAlwaysAdds(w, serverId, channelName, nick) ==
    LET channelId == serverId \o channelName
    IN  [w EXCEPT !.channels =
            [i \in DOMAIN @ |->
                IF @[i].id = channelId
                THEN [@[i] EXCEPT
                        !.users = Append(@, User(nick)),
                        !.messages = Append(@, EventMsg("join", nick, channelId, channelName))]
                ELSE @[i]]]

\* variant: the join message is put in front of the log
OnUserJoinedChannelPrepends(w, serverId, channelName, nick) ==
    LET channelId == serverId \o channelName
    IN  [w EXCEPT !.channels =
            [i \in DOMAIN @ |->
                IF @[i].id = channelId
                THEN [@[i] EXCEPT
                        !.users = IF HasNick(@, nick) THEN @ ELSE Append(@, User(nick)),
                        !.messages = <<EventMsg("join", nick, channelId, channelName)>> \o @]
                ELSE @[i]]]

\* onUserJoinedChannel
OnUserJoinedChannel(w, serverId, channelName, nick) ==
    LET channelId == serverId \o channelName
    IN  [w EXCEPT !.channels =
            [i \in DOMAIN @ |->
                IF @[i].id = channelId
                THEN [@[i] EXCEPT
                        !.users = IF HasNick(@, nick) THEN @ ELSE Append(@, User(nick)),
                        !.messages = Append(@, EventMsg("join", nick, channelId, channelName))]
                ELSE @[i]]]

\* onUserPartedChannel
OnUserPartedChannel(w, serverId, channelName, nick) ==
    LET channelId == serverId \o channelName
    IN  [w EXCEPT !.channels =
            [i \in DOMAIN @ |->
                IF @[i].id = channelId
                THEN [@[i] EXCEPT
                        !.users = WithoutNick(@, nick),
                        !.messages = Append(@, EventMsg("part", nick, channelId, channelName))]
                ELSE @[i]]]

\* variant: the user is removed from every channel, whatever the event lists
OnUserQuitEverywhere(w, serverId, nick, quitchannels) ==
    [w EXCEPT !.channels =
        [i \in DOMAIN w.channels |->
            LET ch == w.channels[i]
            IN  [ch EXCEPT
                    !.users = WithoutNick(@, nick),
                    !.messages = Append(@, EventMsg("quit", nick, ch.id, ch.name))]]]

\* onUserQuit; quitchannels is a set of lower-cased names
OnUserQuit(w, serverId, nick, quitchannels) ==
    [w EXCEPT !.channels =
        [i \in DOMAIN w.channels |->
            LET ch == w.channels[i]
            IN  IF ToLowerCase(ch.name) \in quitchannels
                THEN [ch EXCEPT
                        !.users = WithoutNick(@, nick),
                        !.messages = Append(@, EventMsg("quit", nick, ch.id, ch.name))]
                ELSE ch]]

\* variant: the earlier messages of the user are shown under the new nickname
OnNickChangeRewritesLog(w, rc, serverId, oldNick, newNick, nickChannels) ==
    LET w1 == [w EXCEPT !.channels =
                 [i \in DOMAIN w.channels |->
                     LET ch == w.channels[i]
                     IN  IF HasNick(ch.users, oldNick) \/ ToLowerCase(ch.name) \in nickChannels
                         THEN [ch EXCEPT
                                 !.users = [j \in DOMAIN @ |->
                                               IF ToLowerCase(@[j].nickname) = ToLowerCase(oldNick)
                                               THEN User(newNick) ELSE @[j]],
                                 !.messages =
                                     Append([k \in DOMAIN @ |->
                                                IF ToLowerCase(@[k].nickname) = ToLowerCase(oldNick)
                                                THEN [@[k] EXCEPT !.nickname = newNick]
                                                ELSE @[k]],
                                            Msg("nick", newNick, "", oldNick, "",
                                                ch.id, ch.name, FALSE))]
                         ELSE ch]]
    IN  IF rc.activeServer # <<>>
           /\ ToLowerCase(rc.activeServer[1].nickname) = ToLowerCase(oldNick)
        THEN [w1 EXCEPT !.activeServer =
                 IF @ # <<>> THEN <<[@[1] EXCEPT !.nickname = newNick]>> ELSE <<>>]
        ELSE w1

\* variant: the list of channels named by the event is not looked at
OnNickChangeMembersOnly(w, rc, serverId, oldNick, newNick, nickChannels) ==
    LET w1 == [w EXCEPT !.channels =
                 [i \in DOMAIN w.channels |->
                     LET ch == w.channels[i]
                     IN  IF HasNick(ch.users, oldNick)
                         THEN [ch EXCEPT
                                 !.users = [j \in DOMAIN @ |->
                                               IF ToLowerCase(@[j].nickname) = ToLowerCase(oldNick)
                                               THEN User(newNick) ELSE @[j]],
                                 !.messages = Append(@, Msg("nick", newNick, "", oldNick, "",
                                                             ch.id, ch.name, FALSE))]
                         ELSE ch]]
    IN  IF rc.activeServer # <<>>
           /\ ToLowerCase(rc.activeServer[1].nickname) = ToLowerCase(oldNick)
        THEN [w1 EXCEPT !.activeServer =
                 IF @ # <<>> THEN <<[@[1] EXCEPT !.nickname = newNick]>> ELSE <<>>]
        ELSE w1

\* onNickChange
OnNickChange(w, rc, serverId, oldNick, newNick, nickChannels) ==
    LET w1 == [w EXCEPT !.channels =
                 [i \in DOMAIN w.channels |->
                     LET ch == w.channels[i]
                     IN  IF HasNick(ch.users, oldNick) \/ ToLowerCase(ch.name) \in nickChannels
                         THEN [ch EXCEPT
                                 !.users = [j \in DOMAIN @ |->
                                               IF ToLowerCase(@[j].nickname) = ToLowerCase(oldNick)
                                               THEN User(newNick) ELSE @[j]],
                                 !.messages = Append(@, Msg("nick", newNick, "", oldNick, "",
                                                             ch.id, ch.name, FALSE))]
                         ELSE ch]]
    IN  IF rc.activeServer # <<>>
           /\ ToLowerCase(rc.activeServer[1].nickname) = ToLowerCase(oldNick)
        THEN [w1 EXCEPT !.activeServer =
                 IF @ # <<>> THEN <<[@[1] EXCEPT !.nickname = newNick]>> ELSE <<>>]
        ELSE w1

\* onTopicChange
OnTopicChange(w, serverId, channelName, topic, nick) ==
    LET channelId == serverId \o channelName
    IN  [w EXCEPT !.channels =
            [i \in DOMAIN @ |->
                IF @[i].id = channelId
                THEN [@[i] EXCEPT !.topic = [kind |-> "text", a |-> topic, setter |-> nick]]
                ELSE @[i]]]

\* variant: a snapshot for a channel that is not in the list creates it
OnChannelUserListCreates(w, serverId, channelName, users) ==
    LET channelId == serverId \o channelName
    IN  IF HasId(w.channels, channelId)
        THEN [w EXCEPT !.channels =
                 [i \in DOMAIN @ |->
                     IF @[i].id = channelId THEN [@[i] EXCEPT !.users = users] ELSE @[i]]]
        ELSE [w EXCEPT !.channels =
                 Append(@, [id |-> channelId, serverId |-> serverId, name |-> channelName,
                            users |-> users, messages |-> <<>>,
                            topic |-> [kind |-> "none", a |-> NoStr, setter |-> NoStr]])]

\* variant: the members the channel already has are kept, and the users of
\* the snapshot that are not among them are added
OnChannelUserListMerges(w, serverId, channelName, users) ==
    LET channelId == serverId \o channelName
    IN  [w EXCEPT !.channels =
            [i \in DOMAIN @ |->
                IF @[i].id = channelId
                THEN [@[i] EXCEPT !.users =
                         @ \o SelectSeq(users, LAMBDA u : ~HasNick(w.channels[i].users, u.nickname))]
                ELSE @[i]]]

\* onChannelUserList
OnChannelUserList(w, serverId, channelName, users) ==
    LET channelId == serverId \o channelName
    IN  [w EXCEPT !.channels =
            [i \in DOMAIN @ |->
                IF @[i].id = channelId THEN [@[i] EXCEPT !.users = users] ELSE @[i]]]

\* variant: a mode change of a channel is written to the server log as well
OnModeChangeAlsoServerLog(w, serverId, target, nick, modes) ==
    LET channelId == IF StartsWithHash(target) THEN serverId \o target ELSE serverId
        message == Msg("mode", nick, "Mode change", target, modes, channelId, target, FALSE)
    IN  IF StartsWithHash(target)
        THEN [w EXCEPT !.channels =
                 [i \in DOMAIN @ |->
                     IF @[i].id = channelId
                     THEN [@[i] EXCEPT !.messages = Append(@, message)]
                     ELSE @[i]],
                       !.serverLogMessages = Append(@, message)]
        ELSE [w EXCEPT !.serverLogMessages = Append(@, message)]

\* onModeChange
OnModeChange(w, serverId, target, nick, modes) ==
    LET channelId == IF StartsWithHash(target) THEN serverId \o target ELSE serverId
        message == Msg("mode", nick, "Mode change", target, modes, channelId, target, FALSE)
    IN  IF StartsWithHash(target)
        THEN [w EXCEPT !.channels =
                 [i \in DOMAIN @ |->
                     IF @[i].id = channelId
                     THEN [@[i] EXCEPT !.messages = Append(@, message)]
                     ELSE @[i]]]
        ELSE [w EXCEPT !.serverLogMessages = Append(@, message)]

\* onKick; kicked and kickReason of the message are kept in content.a and
\* content.b
OnKick(w, rc, serverId, channel, nick, by, reason) ==
    LET channelId == serverId \o channel
        kickMessage == Msg("kick", by, "was kicked from", nick, reason,
                           channelId, channel, FALSE)
        w1 == [w EXCEPT !.channels =
                 [i \in DOMAIN @ |->
                     IF @[i].id = channelId
                     THEN [@[i] EXCEPT !.users = WithoutNick(@, nick),
                                       !.messages = Append(@, kickMessage)]
                     ELSE @[i]]]
        w2 == [w1 EXCEPT !.viewSignals =
                 Append(@, [kind |-> "Kicked from", channel |-> channel])]
    IN  IF rc.activeServer # <<>>
           /\ ToLowerCase(nick) = ToLowerCase(rc.activeServer[1].nickname)
        THEN IF rc.activeChannelId = channelId
             THEN [w2 EXCEPT !.activeChannelId = rc.activeServer[1].id,
                             !.viewSignals =
                                 Append(@, [kind |-> "Server log opened",
                                            channel |-> channel])]
             ELSE w2
        ELSE w1

\* the listeners of registerEvents for these events
SvcOnJoin(w, c, event) ==
    LET serverId == w.clients[c].serverId
        w1 == OnUserJoinedChannel(w, serverId, ToLowerCase(event.channel), event.nick)
    IN  IF ToLowerCase(event.nick) = ToLowerCase(w.svcCurrentNick) /\ w.svcCurrentNick # NoStr
           /\ w.svcClient # 0
        THEN Send(w1, "names", event.channel)
        ELSE w1

SvcOnPart(w, c, event) ==
    OnUserPartedChannel(w, w.clients[c].serverId, ToLowerCase(event.channel), event.nick)

SvcOnQuit(w, c, event) ==
    OnUserQuit(w, w.clients[c].serverId, event.nick,
               {ToLowerCase(event.channels[i]) : i \in DOMAIN event.channels})

SvcOnKick(w, rc, c, event) ==
    OnKick(w, rc, w.clients[c].serverId, ToLowerCase(event.channel), event.kicked, event.nick,
           event.message)

SvcOnNick(w, rc, c, event) ==
    LET w1 == IF w.svcCurrentNick # NoStr
                 /\ ToLowerCase(event.nick) = ToLowerCase(w.svcCurrentNick)
              THEN [w EXCEPT !.svcCurrentNick = event.new_nick]
              ELSE w
    IN  OnNickChange(w1, rc, w.clients[c].serverId, event.nick, event.new_nick,
                     {ToLowerCase(event.channels[i]) : i \in DOMAIN event.channels})

SvcOnTopic(w, c, event) ==
    OnTopicChange(w, w.clients[c].serverId, ToLowerCase(event.channel), event.topic, event.nick)

\* 'userlist' and 'names'
SvcOnUserList(w, c, event) ==
    OnChannelUserList(w, w.clients[c].serverId, ToLowerCase(event.channel),
                      [i \in DOMAIN event.users |-> User(event.users[i])])

SvcOnMode(w, c, event) ==
    OnModeChange(w, w.clients[c].serverId, ToLowerCase(event.target), event.nick, event.modes)

-----------------------------------------------------------------------------
(* Channel discovery: start, end and the ordering applied at the end.       *)

\* onAvailableChannelsStart
OnAvailableChannelsStart(w) ==
    [w EXCEPT !.availableChannels = <<>>, !.isListingChannels = TRUE]

\* String.prototype.localeCompare for names made of '#' and ASCII letters:
\* the letters are compared without regard to case first ('#' sorts below
\* every letter, a prefix below its extensions), and only names equal in
\* that comparison are separated by case, lower case first.
CharRank(c) ==
    IF c = "#" THEN 0
    ELSE CHOOSE i \in 1..26 : LowerChars[i] = LowerChar(c)

RECURSIVE PrimaryCompare(_, _)
PrimaryCompare(s, t) ==
    IF s = <<>> /\ t = <<>> THEN 0
    ELSE IF s = <<>> THEN -1
    ELSE IF t = <<>> THEN 1
    ELSE IF CharRank(Head(s)) < CharRank(Head(t)) THEN -1
    ELSE IF CharRank(Head(s)) > CharRank(Head(t)) THEN 1
    ELSE PrimaryCompare(Tail(s), Tail(t))

\* for names of equal letters: the first position where the case differs
RECURSIVE CaseCompare(_, _)
CaseCompare(s, t) ==
    IF s = <<>> \/ t = <<>> THEN 0
    ELSE IF Head(s) = Head(t) THEN CaseCompare(Tail(s), Tail(t))
    ELSE IF Head(s) = LowerChar(Head(s)) THEN -1
    ELSE 1

LocaleCompare(s, t) ==
    IF PrimaryCompare(s, t) # 0 THEN PrimaryCompare(s, t) ELSE CaseCompare(s, t)

\* variant: the smaller channels come first
CompareAvailableAscending(a, b) ==
    IF a.userCount # <<>> /\ b.userCount # <<>> /\ b.userCount[1] # a.userCount[1]
    THEN a.userCount[1] - b.userCount[1]
    ELSE IF a.userCount # <<>> /\ b.userCount = <<>> THEN -1
    ELSE IF a.userCount = <<>> /\ b.userCount # <<>> THEN 1
    ELSE LocaleCompare(a.name, b.name)

\* the comparator of onAvailableChannelsEnd; userCount is <<>> when undefined
CompareAvailable(a, b) ==
    IF a.userCount # <<>> /\ b.userCount # <<>> /\ b.userCount[1] # a.userCount[1]
    THEN b.userCount[1] - a.userCount[1]
    ELSE IF a.userCount # <<>> /\ b.userCount = <<>> THEN -1
    ELSE IF a.userCount = <<>> /\ b.userCount # <<>> THEN 1
    ELSE LocaleCompare(a.name, b.name)

\* Array.prototype.sort is stable: an entry goes before the first entry of
\* the sorted part that the comparator puts after it
RECURSIVE InsertSorted(_, _)
InsertSorted(x, sorted) ==
    IF sorted = <<>> THEN <<x>>
    ELSE IF CompareAvailable(x, Head(sorted)) < 0 THEN <<x>> \o sorted
    ELSE <<Head(sorted)>> \o InsertSorted(x, Tail(sorted))

RECURSIVE SortAvailable(_)
SortAvailable(list) ==
    IF list = <<>> THEN <<>>
    ELSE InsertSorted(list[Len(list)], SortAvailable(SubSeq(list, 1, Len(list) - 1)))

\* onAvailableChannelsEnd
OnAvailableChannelsEnd(w) ==
    [w EXCEPT !.isListingChannels = FALSE,
              !.availableChannels = SortAvailable(@)]

-----------------------------------------------------------------------------
(* Sending a message.                                                      *)

StartsWith(s, prefix) ==
    Len(s) >= Len(prefix) /\ SubSeq(s, 1, Len(prefix)) = prefix

\* message.split(' ')
RECURSIVE SplitBlank(_)
SplitBlank(s) ==
    IF \A i \in DOMAIN s : s[i] # " " THEN <<s>>
    ELSE LET k == CHOOSE i \in DOMAIN s :
                      s[i] = " " /\ \A j \in 1..(i - 1) : s[j] # " "
         IN  <<SubSeq(s, 1, k - 1)>> \o SplitBlank(SubSeq(s, k + 1, Len(s)))

\* parts.slice(2).join(' ')
RECURSIVE JoinBlank(_)
JoinBlank(parts) ==
    IF parts = <<>> THEN <<>>
    ELSE IF Len(parts) = 1 THEN parts[1]
    ELSE parts[1] \o <<" ">> \o JoinBlank(Tail(parts))

\* IrcService.sendMessage
SvcSendMessage(w, target, message) ==
    LET parts == SplitBlank(message)
        second == IF Len(parts) >= 2 THEN parts[2] ELSE NoStr
        rest == IF Len(parts) >= 3 THEN JoinBlank(SubSeq(parts, 3, Len(parts))) ELSE NoStr
    IN  IF w.svcClient = 0 \/ ~w.clients[w.svcClient].connected THEN w
        ELSE IF StartsWith(message, <<"/", "m", "e", " ">>)
        THEN Send(w, "action", target)
        ELSE IF StartsWith(message, <<"/", "n", "o", "t", "i", "c", "e", " ">>)
        THEN IF second # NoStr /\ rest # NoStr THEN Send(w, "notice", second) ELSE w
        ELSE IF StartsWith(message, <<"/", "q", "u", "e", "r", "y", " ">>)
        THEN IF second # NoStr /\ w.svcServerId # NoStr
             THEN [w EXCEPT !.serverLogMessages =
                      Append(@, Msg("info", NoStr, "Query requested with", second, "",
                                    w.svcServerId, w.svcServerId, FALSE))]
             ELSE w
        ELSE Send(w, "privmsg", target)

\* variant: only entries of the channel list can be the target
CurrentTargetChannelsOnly(rc) ==
    IF rc.activeServer = <<>> \/ rc.activeChannelId = NoStr THEN [type |-> "none"]
    ELSE IF HasId(rc.channels, rc.activeChannelId)
    THEN LET i == CHOOSE i \in DOMAIN rc.channels : rc.channels[i].id = rc.activeChannelId
         IN  [type |-> "channel", id |-> rc.channels[i].id, name |-> rc.channels[i].name]
    ELSE [type |-> "none"]

\* currentTarget (useMemo): "none", "server" or the channel on the screen
CurrentTarget(rc) ==
    IF rc.activeServer = <<>> \/ rc.activeChannelId = NoStr THEN [type |-> "none"]
    ELSE IF rc.activeChannelId = rc.activeServer[1].id THEN [type |-> "server"]
    ELSE IF HasId(rc.channels, rc.activeChannelId)
    THEN LET i == CHOOSE i \in DOMAIN rc.channels : rc.channels[i].id = rc.activeChannelId
         IN  [type |-> "channel", id |-> rc.channels[i].id, name |-> rc.channels[i].name]
    ELSE [type |-> "none"]

\* handleSendMessage
HandleSendMessageW(w, rc, text) ==
    LET currentTarget == CurrentTarget(rc)
        isAction == StartsWith(text, <<"/", "m", "e", " ">>)
        selfMessage ==
            Msg(IF isAction THEN "action" ELSE "message", rc.activeServer[1].nickname,
                "text", IF isAction THEN SubSeq(text, 5, Len(text)) ELSE text, "",
                currentTarget.id, currentTarget.name, TRUE)
        w1 == SvcSendMessage(w, currentTarget.name, text)
    IN  IF currentTarget.type = "none" \/ ~rc.activeServer[1].isConnected THEN w
        ELSE IF currentTarget.type = "server" \/ currentTarget.name = NoStr THEN w
        ELSE IF rc.activeServer[1].nickname # NoStr /\ ~StartsWith(text, <<"/">>)
        THEN [w1 EXCEPT !.channels =
                 [i \in DOMAIN @ |->
                     IF @[i].id = currentTarget.id
                     THEN [@[i] EXCEPT !.messages = Append(@, selfMessage)]
                     ELSE @[i]]]
        ELSE w1

\* IrcService.changeNick
SvcChangeNick(w, newNickname) ==
    IF w.svcClient # 0 /\ w.clients[w.svcClient].connected
       /\ newNickname # NoStr /\ newNickname # w.svcCurrentNick
    THEN Send(w, "nick", newNickname)
    ELSE w

\* handleSaveSettings
HandleSaveSettingsW(w, rc, newNickname) ==
    LET oldNickname == rc.activeServer[1].nickname
        w1 == IF newNickname # oldNickname THEN SvcChangeNick(w, newNickname) ELSE w
    IN  IF rc.activeServer = <<>> THEN w
        ELSE [w1 EXCEPT !.activeServer =
                 IF @ = <<>> THEN <<>>
                 ELSE <<[@[1] EXCEPT !.nickname =
                            IF newNickname = oldNickname THEN @ ELSE newNickname]>>]

-----------------------------------------------------------------------------
(* Committing a handler's result.                                          *)

LastOf(op, c, arg, kind, w) ==
    [op |-> op, client |-> c, arg |-> arg, kind |-> kind,
     sent |-> w.sent, signals |-> w.signals, viewSignals |-> w.viewSignals,
     threw |-> w.threw]

\* flush: the handler ran inside a UI event, whose updates React commits
\* before the next UI event; updates made from a transport callback wait for
\* a later render.
Commit(w, ie, flush, lastRec) ==
    /\ activeServer' = w.activeServer
    /\ channels' = w.channels
    /\ availableChannels' = w.availableChannels
    /\ serverLogMessages' = w.serverLogMessages
    /\ activeChannelId' = w.activeChannelId
    /\ isListingChannels' = w.isListingChannels
    /\ svcClient' = w.svcClient
    /\ svcServerId' = w.svcServerId
    /\ svcCurrentNick' = w.svcCurrentNick
    /\ clients' = w.clients
    /\ internalEvents' = IF w.ieUsed THEN ie ELSE internalEvents
    /\ rendered' = IF flush THEN Snapshot(w) ELSE rendered
    /\ last' = lastRec

\* the library's behaviour is fixed once the code has relied on it
IeChoices == IF internalEvents = "unknown" THEN InternalEventsOutcomes
             ELSE {internalEvents}

-----------------------------------------------------------------------------
(* Commands (UI handlers). rc is the state captured by the handler's        *)
(* closure.                                                                 *)

HandleConnectW(w, details, ie) ==
    LET serverId == ServerIdOf(details)
        withId == [id |-> serverId, host |-> details.host, port |-> details.port,
                   nickname |-> details.nickname]
        w1 == [w EXCEPT
                 !.activeServer = <<[id |-> serverId, host |-> details.host,
                                     port |-> details.port,
                                     nickname |-> details.nickname,
                                     isConnected |-> FALSE, isConnecting |-> TRUE]>>,
                 !.channels = <<>>,
                 !.availableChannels = <<>>,
                 !.serverLogMessages = <<AttemptMsg(details.host, serverId)>>,
                 !.activeChannelId = serverId]
    IN  SvcConnect(w1, withId, ie)

\* cap: how many clients a run may create
HandleConnectUpTo(cap) ==
    \E details \in ConnectInputs, ie \in IeChoices :
        LET w == HandleConnectW(World, details, ie)
        IN  /\ Len(w.clients) <= cap
            /\ Commit(w, ie, TRUE, LastOf("connect", w.svcClient, ServerIdOf(details), "", w))

HandleConnect == HandleConnectUpTo(MaxClients)

HandleDisconnectW(w, rc, ie) ==
    IF rc.activeServer # <<>> THEN SvcDisconnect(w, "Client disconnected", ie) ELSE w

HandleDisconnect ==
    \E ie \in IeChoices :
        /\ rendered.activeServer # <<>>
        /\ LET w == HandleDisconnectW(World, rendered, ie)
           IN  Commit(w, ie, TRUE, LastOf("disconnect", svcClient, NoStr, "", w))

\* variant: the id keeps the case of the name typed
ExecuteJoinChannelCaseSensitive(w, rc, channelNameToJoin) ==
    LET properChannelName ==
            IF StartsWithHash(channelNameToJoin) THEN Trim(channelNameToJoin)
            ELSE <<"#">> \o Trim(channelNameToJoin)
        channelId == rc.activeServer[1].id \o properChannelName
        newChannelPlaceholder ==
            [id |-> channelId, serverId |-> rc.activeServer[1].id,
             name |-> properChannelName,
             users |-> <<User(rc.activeServer[1].nickname)>>,
             messages |-> <<Msg("info", NoStr, "Joining", properChannelName, "",
                               channelId, properChannelName, FALSE)>>,
             topic |-> [kind |-> "Joining", a |-> properChannelName, setter |-> NoStr]]
    IN  IF rc.activeServer = <<>> \/ ~rc.activeServer[1].isConnected
           \/ Trim(channelNameToJoin) = NoStr
        THEN w
        ELSE IF HasId(rc.channels, channelId)
        THEN [w EXCEPT !.activeChannelId = channelId,
                       !.signals = Append(@, "Already joined")]
        ELSE SvcJoinChannel([w EXCEPT !.channels = Append(@, newChannelPlaceholder),
                                      !.activeChannelId = channelId],
                            properChannelName)

\* variant: a channel that is already in the list is joined again
ExecuteJoinChannelRejoins(w, rc, channelNameToJoin) ==
    LET properChannelName ==
            IF StartsWithHash(channelNameToJoin) THEN Trim(channelNameToJoin)
            ELSE <<"#">> \o Trim(channelNameToJoin)
        channelId == rc.activeServer[1].id \o ToLowerCase(properChannelName)
        newChannelPlaceholder ==
            [id |-> channelId, serverId |-> rc.activeServer[1].id,
             name |-> properChannelName,
             users |-> <<User(rc.activeServer[1].nickname)>>,
             messages |-> <<Msg("info", NoStr, "Joining", properChannelName, "",
                               channelId, properChannelName, FALSE)>>,
             topic |-> [kind |-> "Joining", a |-> properChannelName, setter |-> NoStr]]
    IN  IF rc.activeServer = <<>> \/ ~rc.activeServer[1].isConnected
           \/ Trim(channelNameToJoin) = NoStr
        THEN w
        ELSE IF HasId(rc.channels, channelId)
        THEN SvcJoinChannel([w EXCEPT !.activeChannelId = channelId,
                                      !.signals = Append(@, "Already joined")],
                            properChannelName)
        ELSE SvcJoinChannel([w EXCEPT !.channels = Append(@, newChannelPlaceholder),
                                      !.activeChannelId = channelId],
                            properChannelName)

\* executeJoinChannel
ExecuteJoinChannelW(w, rc, channelNameToJoin) ==
    LET properChannelName ==
            IF StartsWithHash(channelNameToJoin) THEN Trim(channelNameToJoin)
            ELSE <<"#">> \o Trim(channelNameToJoin)
        channelId == rc.activeServer[1].id \o ToLowerCase(properChannelName)
        newChannelPlaceholder ==
            [id |-> channelId, serverId |-> rc.activeServer[1].id,
             name |-> properChannelName,
             users |-> <<User(rc.activeServer[1].nickname)>>,
             messages |-> <<Msg("info", NoStr, "Joining", properChannelName, "",
                               channelId, properChannelName, FALSE)>>,
             topic |-> [kind |-> "Joining", a |-> properChannelName, setter |-> NoStr]]
    IN  IF rc.activeServer = <<>> \/ ~rc.activeServer[1].isConnected
           \/ Trim(channelNameToJoin) = NoStr
        THEN w
        ELSE IF HasId(rc.channels, channelId)
        THEN [w EXCEPT !.activeChannelId = channelId,
                       !.signals = Append(@, "Already joined")]
        ELSE SvcJoinChannel([w EXCEPT !.channels = Append(@, newChannelPlaceholder),
                                      !.activeChannelId = channelId],
                            properChannelName)

JoinChannel(name) ==
    LET w == ExecuteJoinChannelW(World, rendered, name)
    IN  /\ Len(w.channels) <= MaxChannels
        /\ Commit(w, "unknown", TRUE, LastOf("join", svcClient, name, "", w))

ExecuteJoinChannel == \E name \in JoinInputs : JoinChannel(name)

HandleLeaveChannelW(w, rc, channelIdToLeave) ==
    LET i == CHOOSE i \in DOMAIN rc.channels : rc.channels[i].id = channelIdToLeave
        w1 == SvcPartChannel(w, rc.channels[i].name)
        w2 == [w1 EXCEPT !.channels = WithoutId(@, channelIdToLeave)]
    IN  IF rc.activeServer = <<>> \/ ~HasId(rc.channels, channelIdToLeave)
        THEN w
        ELSE IF rc.activeChannelId = channelIdToLeave
        THEN [w2 EXCEPT !.activeChannelId = rc.activeServer[1].id]
        ELSE w2

\* the user can click the channels that are on the screen
HandleLeaveChannel ==
    \E i \in DOMAIN rendered.channels :
        LET id == rendered.channels[i].id
            w == HandleLeaveChannelW(World, rendered, id)
        IN  Commit(w, "unknown", TRUE, LastOf("leave", svcClient, id, "", w))

-----------------------------------------------------------------------------
(* Transport events.                                                       *)

CanEmit(c) == clients[c].listeners /\ clients[c].phase # "down"

\* the socket opens: client.connected becomes true; no listener of the service
SocketOpen(c) ==
    /\ CanEmit(c) /\ clients[c].phase = "connecting"
    /\ LET w == [World EXCEPT !.clients[c].phase = "open", !.clients[c].connected = TRUE]
       IN  Commit(w, "unknown", FALSE, LastOf("socketOpen", c, clients[c].serverId, "", w))

\* registration completes on an open socket, unless QUIT was sent first
Registered(c) ==
    /\ CanEmit(c) /\ clients[c].phase = "open" /\ clients[c].quitReason = ""
    /\ Len(serverLogMessages) < MaxLog
    /\ LET w == SvcOnRegistered([World EXCEPT !.clients[c].phase = "registered"], c)
       IN  Commit(w, "unknown", FALSE, LastOf("registered", c, clients[c].serverId, "", w))

\* a connection-class error leaves the transport unable to register
IrcError(c, errType) ==
    /\ CanEmit(c)
    /\ Len(serverLogMessages) < MaxLog
    /\ LET w0 == IF IsConnectionClass(errType)
                 THEN [World EXCEPT !.clients[c].phase = "failed"]
                 ELSE World
           w == SvcOnError(w0, c, errType)
       IN  Commit(w, "unknown", FALSE, LastOf("error", c, clients[c].serverId, errType, w))

\* the transport's 'close' and 'socket close', once each, in either order
Close(c) ==
    /\ clients[c].listeners /\ ~clients[c].closeEmitted
    /\ Len(serverLogMessages) < MaxLog
    /\ LET w0 == [World EXCEPT !.clients[c].phase = "down",
                               !.clients[c].connected = FALSE,
                               !.clients[c].closeEmitted = TRUE]
           w == SvcOnClose(w0, c, "")
       IN  Commit(w, "unknown", FALSE, LastOf("close", c, clients[c].serverId, "", w))

SocketClose(c) ==
    /\ clients[c].listeners /\ ~clients[c].socketCloseEmitted
    /\ Len(serverLogMessages) < MaxLog
    /\ LET w0 == [World EXCEPT !.clients[c].phase = "down",
                               !.clients[c].connected = FALSE,
                               !.clients[c].socketCloseEmitted = TRUE]
           w == SvcOnSocketClose(w0, c)
       IN  Commit(w, "unknown", FALSE, LastOf("socketClose", c, clients[c].serverId, "", w))

\* a registered client delivers messages and discovery items
IrcMessage(c, event) ==
    /\ CanEmit(c) /\ clients[c].phase = "registered"
    /\ LET w == SvcOnMessage(World, rendered, c, event)
       IN  /\ Len(w.channels) <= MaxChannels
           /\ \A i \in DOMAIN w.channels : Len(w.channels[i].messages) <= MaxMsgs
           /\ Commit(w, "unknown", FALSE, LastOf("message", c, event.nick, "", w))

ChannelListItem(c, event) ==
    /\ CanEmit(c) /\ clients[c].phase = "registered"
    /\ Len(availableChannels) < MaxAvail
    /\ LET w == SvcOnChannelListItem(World, c, event)
       IN  Commit(w, "unknown", FALSE, LastOf("listItem", c, event.channel, "", w))

\* the bounds on what a channel event may build up
WithinBounds(w) ==
    /\ Len(w.channels) <= MaxChannels
    /\ \A i \in DOMAIN w.channels :
           Len(w.channels[i].messages) <= MaxMsgs /\ Len(w.channels[i].users) <= MaxUsers
    /\ Len(w.serverLogMessages) <= MaxLog
    /\ Len(w.availableChannels) <= MaxAvail

CanDeliver(c) == CanEmit(c) /\ clients[c].phase = "registered"

IrcJoin(c, event) ==
    /\ CanDeliver(c)
    /\ LET w == SvcOnJoin(World, c, event)
       IN  WithinBounds(w) /\ Commit(w, "unknown", FALSE, LastOf("joinEvent", c, event.nick, "", w))

IrcPart(c, event) ==
    /\ CanDeliver(c)
    /\ LET w == SvcOnPart(World, c, event)
       IN  WithinBounds(w) /\ Commit(w, "unknown", FALSE, LastOf("partEvent", c, event.nick, "", w))

IrcQuit(c, event) ==
    /\ CanDeliver(c)
    /\ LET w == SvcOnQuit(World, c, event)
       IN  WithinBounds(w) /\ Commit(w, "unknown", FALSE, LastOf("quitEvent", c, event.nick, "", w))

IrcNick(c, event) ==
    /\ CanDeliver(c)
    /\ LET w == SvcOnNick(World, rendered, c, event)
       IN  WithinBounds(w) /\ Commit(w, "unknown", FALSE, LastOf("nickEvent", c, event.nick, "", w))

IrcTopic(c, event) ==
    /\ CanDeliver(c)
    /\ LET w == SvcOnTopic(World, c, event)
       IN  WithinBounds(w) /\ Commit(w, "unknown", FALSE, LastOf("topicEvent", c, event.nick, "", w))

IrcUserList(c, event) ==
    /\ CanDeliver(c)
    /\ LET w == SvcOnUserList(World, c, event)
       IN  WithinBounds(w)
           /\ Commit(w, "unknown", FALSE, LastOf("userListEvent", c, event.channel, "", w))

IrcMode(c, event) ==
    /\ CanDeliver(c)
    /\ LET w == SvcOnMode(World, c, event)
       IN  WithinBounds(w) /\ Commit(w, "unknown", FALSE, LastOf("modeEvent", c, event.nick, "", w))

\* cap: how many messages the log of a channel may hold after the event
IrcKickUpTo(c, event, cap) ==
    /\ CanDeliver(c)
    /\ LET w == SvcOnKick(World, rendered, c, event)
       IN  /\ WithinBounds([w EXCEPT !.channels =
                               [i \in DOMAIN @ |-> [@[i] EXCEPT !.messages = <<>>]]])
           /\ \A i \in DOMAIN w.channels : Len(w.channels[i].messages) <= cap
           /\ Commit(w, "unknown", FALSE, LastOf("kickEvent", c, event.kicked, "", w))

IrcKick(c, event) == IrcKickUpTo(c, event, MaxMsgs)

ChannelListStart(c) ==
    /\ CanDeliver(c)
    /\ LET w == OnAvailableChannelsStart(World)
       IN  Commit(w, "unknown", FALSE, LastOf("listStart", c, clients[c].serverId, "", w))

\* an item of the richer reply
DiscoveryItem(c, event) ==
    /\ CanDeliver(c)
    /\ LET w == SvcOnChannelListItem(World, c, event)
       IN  WithinBounds(w) /\ Commit(w, "unknown", FALSE, LastOf("listItem", c, event.channel, "", w))

ChannelListEnd(c) ==
    /\ CanDeliver(c)
    /\ LET w == OnAvailableChannelsEnd(World)
       IN  Commit(w, "unknown", FALSE, LastOf("listEnd", c, clients[c].serverId, "", w))

SendText(text) ==
    LET w == HandleSendMessageW(World, rendered, text)
    IN  WithinBounds(w) /\ Commit(w, "unknown", TRUE, LastOf("send", svcClient, text, "", w))

HandleSendMessage == \E text \in SendInputs : SendText(text)

\* the settings dialog is on the screen while there is a session
SaveSettings(newNickname) ==
    /\ rendered.activeServer # <<>>
    /\ LET w == HandleSaveSettingsW(World, rendered, newNickname)
       IN  Commit(w, "unknown", TRUE, LastOf("saveSettings", svcClient, newNickname, "", w))

HandleSaveSettings == \E newNickname \in SettingsInputs : SaveSettings(newNickname)

\* React commits the pending updates and re-creates the callbacks
Render ==
    /\ rendered # Snapshot(World)
    /\ rendered' = Snapshot(World)
    /\ UNCHANGED <<activeServer, channels, availableChannels, serverLogMessages,
                   activeChannelId, isListingChannels,
                   svcClient, svcServerId, svcCurrentNick, clients,
                   internalEvents, last>>

-----------------------------------------------------------------------------

Init ==
    /\ activeServer = <<>>
    /\ channels = <<>>
    /\ availableChannels = <<>>
    /\ serverLogMessages = <<>>
    /\ activeChannelId = NoStr
    /\ isListingChannels = FALSE
    /\ rendered = [activeServer |-> <<>>, channels |-> <<>>, activeChannelId |-> NoStr]
    /\ svcClient = 0
    /\ svcServerId = NoStr
    /\ svcCurrentNick = NoStr
    /\ clients = <<>>
    /\ internalEvents = "unknown"
    /\ last = [op |-> "init", client |-> 0, arg |-> NoStr, kind |-> "",
               sent |-> <<>>, signals |-> <<>>, viewSignals |-> <<>>, threw |-> FALSE]

Next ==
    \/ HandleConnect
    \/ HandleDisconnect
    \/ ExecuteJoinChannel
    \/ HandleLeaveChannel
    \/ \E c \in DOMAIN clients : SocketOpen(c)
    \/ \E c \in DOMAIN clients : Registered(c)
    \/ \E c \in DOMAIN clients, errType \in ErrorTypes : IrcError(c, errType)
    \/ \E c \in DOMAIN clients : Close(c)
    \/ \E c \in DOMAIN clients : SocketClose(c)
    \/ \E c \in DOMAIN clients, event \in MessageEvents : IrcMessage(c, event)
    \/ \E c \in DOMAIN clients, event \in ListItemEvents : ChannelListItem(c, event)
    \/ HandleSendMessage
    \/ \E text \in SlashInputs : SendText(text)
    \/ \E c \in DOMAIN clients, event \in JoinEvents : IrcJoin(c, event)
    \/ \E c \in DOMAIN clients, event \in PartEvents : IrcPart(c, event)
    \/ \E c \in DOMAIN clients, event \in QuitEvents : IrcQuit(c, event)
    \/ HandleSaveSettings
    \/ \E c \in DOMAIN clients, event \in NickEvents \cup OwnNickEvents : IrcNick(c, event)
    \/ \E c \in DOMAIN clients, event \in TopicEvents : IrcTopic(c, event)
    \/ \E c \in DOMAIN clients, event \in UserListEvents : IrcUserList(c, event)
    \/ \E c \in DOMAIN clients, event \in ModeEvents : IrcMode(c, event)
    \/ \E c \in DOMAIN clients, event \in KickEvents \cup OwnKickEvents : IrcKick(c, event)
    \/ \E c \in DOMAIN clients : ChannelListStart(c)
    \/ \E c \in DOMAIN clients : ChannelListEnd(c)
    \/ Render

Spec == Init /\ [][Next]_vars

\* Supersession: one more client than Spec, so that a connect command can
\* replace a connection that is pending or established.
NextReconnect ==
    \/ HandleConnectUpTo(MaxClients + 1)
    \/ HandleDisconnect
    \/ ExecuteJoinChannel
    \/ \E c \in DOMAIN clients : SocketOpen(c)
    \/ \E c \in DOMAIN clients : Registered(c)
    \/ \E c \in DOMAIN clients, errType \in ErrorTypes : IrcError(c, errType)
    \/ \E c \in DOMAIN clients : Close(c)
    \/ \E c \in DOMAIN clients : SocketClose(c)
    \/ Render

SpecReconnect == Init /\ [][NextReconnect]_vars

\* One session from the connect command to its teardown, with channels and
\* discovery entries: the connect command creates the session's only client.
NextClose ==
    \/ HandleConnectUpTo(1)
    \/ HandleDisconnect
    \/ ExecuteJoinChannel
    \/ \E c \in DOMAIN clients : SocketOpen(c)
    \/ \E c \in DOMAIN clients : Registered(c)
    \/ \E c \in DOMAIN clients, event \in ListItemEvents : ChannelListItem(c, event)
    \/ \E c \in DOMAIN clients : Close(c)
    \/ \E c \in DOMAIN clients : SocketClose(c)
    \/ Render

SpecClose == Init /\ [][NextClose]_vars

\* Error events in every connection state.
NextError ==
    \/ HandleConnect
    \/ HandleDisconnect
    \/ \E c \in DOMAIN clients : SocketOpen(c)
    \/ \E c \in DOMAIN clients : Registered(c)
    \/ \E c \in DOMAIN clients, errType \in ErrorTypes : IrcError(c, errType)
    \/ \E c \in DOMAIN clients : Close(c)
    \/ \E c \in DOMAIN clients : SocketClose(c)
    \/ Render

SpecError == Init /\ [][NextError]_vars

\* The channel list within one session: joins, leaves and incoming messages.
NextChannels ==
    \/ HandleConnectUpTo(1)
    \/ ExecuteJoinChannel
    \/ HandleLeaveChannel
    \/ \E c \in DOMAIN clients : SocketOpen(c)
    \/ \E c \in DOMAIN clients : Registered(c)
    \/ \E c \in DOMAIN clients, event \in MessageEvents : IrcMessage(c, event)
    \/ \E c \in DOMAIN clients : Close(c)
    \/ Render

SpecChannels == Init /\ [][NextChannels]_vars

\* Nickname changes in one session: the joined channel '#a' and the
\* private conversation with 'al'.
NextNick ==
    \/ HandleConnectUpTo(1)
    \/ JoinChannel(<<"#", "a">>)
    \/ \E c \in DOMAIN clients : SocketOpen(c)
    \/ \E c \in DOMAIN clients : Registered(c)
    \/ \E c \in DOMAIN clients,
          event \in {e \in MessageEvents :
                        ~StartsWithHash(e.target) /\ e.nick = <<"a", "l">>} :
           IrcMessage(c, event)
    \/ \E c \in DOMAIN clients, event \in UserListEvents : IrcUserList(c, event)
    \/ \E c \in DOMAIN clients, event \in NickEvents : IrcNick(c, event)
    \/ Render

SpecNick == Init /\ [][NextNick]_vars

\* Quit events in one session with the channels '#a' and '#b'.
NextQuit ==
    \/ HandleConnectUpTo(1)
    \/ ExecuteJoinChannel
    \/ \E c \in DOMAIN clients : SocketOpen(c)
    \/ \E c \in DOMAIN clients : Registered(c)
    \/ \E c \in DOMAIN clients, event \in UserListEvents : IrcUserList(c, event)
    \/ \E c \in DOMAIN clients, event \in QuitEvents : IrcQuit(c, event)
    \/ Render

SpecQuit == Init /\ [][NextQuit]_vars

\* Joins by command and the join events that follow them, for the session's
\* own nickname and for others, with user-list snapshots in between.
NextJoin ==
    \/ HandleConnectUpTo(1)
    \/ ExecuteJoinChannel
    \/ \E c \in DOMAIN clients : SocketOpen(c)
    \/ \E c \in DOMAIN clients : Registered(c)
    \/ \E c \in DOMAIN clients, event \in JoinEvents \cup OwnJoinEvents : IrcJoin(c, event)
    \/ \E c \in DOMAIN clients, event \in UserListEvents : IrcUserList(c, event)
    \/ Render

SpecJoin == Init /\ [][NextJoin]_vars

\* Mode events for the joined channel '#a', for the channel '#c' that is not
\* in the list and for the session's own nickname, with user-list snapshots
\* that give '#a' its members.
NextMode ==
    \/ HandleConnectUpTo(1)
    \/ JoinChannel(<<"#", "a">>)
    \/ \E c \in DOMAIN clients : SocketOpen(c)
    \/ \E c \in DOMAIN clients : Registered(c)
    \/ \E c \in DOMAIN clients, event \in UserListEvents : IrcUserList(c, event)
    \/ \E c \in DOMAIN clients, event \in ModeEvents : IrcMode(c, event)
    \/ Render

SpecMode == Init /\ [][NextMode]_vars

\* The commands of one session, with the events that end it.
NextCommands ==
    \/ HandleConnectUpTo(1)
    \/ HandleDisconnect
    \/ ExecuteJoinChannel
    \/ HandleLeaveChannel
    \/ HandleSendMessage
    \/ \E c \in DOMAIN clients : SocketOpen(c)
    \/ \E c \in DOMAIN clients : Registered(c)
    \/ \E c \in DOMAIN clients, errType \in ErrorTypes : IrcError(c, errType)
    \/ \E c \in DOMAIN clients : Close(c)
    \/ Render

SpecCommands == Init /\ [][NextCommands]_vars

\* The message logs of one session: the commands, and one event of every
\* kind that writes to a log, for the joined channel '#a' (spelled '#A' by
\* the server).
NextLog ==
    \/ HandleConnectUpTo(1)
    \/ JoinChannel(<<"#", "a">>)
    \/ HandleLeaveChannel
    \/ HandleSendMessage
    \/ \E c \in DOMAIN clients : SocketOpen(c)
    \/ \E c \in DOMAIN clients : Registered(c)
    \/ \E c \in DOMAIN clients, event \in {e \in MessageEvents : e.nick = <<"a", "l">>} :
           IrcMessage(c, event)
    \/ \E c \in DOMAIN clients, event \in {e \in JoinEvents : e.channel = <<"#", "A">>} :
           IrcJoin(c, event)
    \/ \E c \in DOMAIN clients, event \in {e \in PartEvents : e.channel = <<"#", "A">>} :
           IrcPart(c, event)
    \/ \E c \in DOMAIN clients, event \in {e \in QuitEvents : e.channels = <<<<"#", "A">>>>} :
           IrcQuit(c, event)
    \/ \E c \in DOMAIN clients, event \in {e \in NickEvents : e.channels = <<<<"#", "A">>>>} :
           IrcNick(c, event)
    \/ \E c \in DOMAIN clients, event \in {e \in ModeEvents : e.target = <<"#", "A">>} :
           IrcMode(c, event)
    \/ \E c \in DOMAIN clients, event \in {e \in KickEvents : e.channel = <<"#", "A">>} :
           IrcKick(c, event)
    \/ Render

SpecLog == Init /\ [][NextLog]_vars

\* Events for channels that are not in the list: '#c' is never joined, and
\* '#a' is joined and left while messages, joins and user lists arrive for it.
NextEvents ==
    \/ HandleConnectUpTo(1)
    \/ JoinChannel(<<"#", "a">>)
    \/ HandleLeaveChannel
    \/ \E c \in DOMAIN clients : SocketOpen(c)
    \/ \E c \in DOMAIN clients : Registered(c)
    \/ \E c \in DOMAIN clients, event \in {e \in MessageEvents : StartsWithHash(e.target)} :
           IrcMessage(c, event)
    \/ \E c \in DOMAIN clients, event \in JoinEvents : IrcJoin(c, event)
    \/ \E c \in DOMAIN clients, event \in UserListEvents : IrcUserList(c, event)
    \/ \E c \in DOMAIN clients, event \in {e \in PartEvents : e.channel = <<"#", "c">>} :
           IrcPart(c, event)
    \/ \E c \in DOMAIN clients, event \in {e \in QuitEvents : e.channels = <<<<"#", "c">>>>} :
           IrcQuit(c, event)
    \/ \E c \in DOMAIN clients, event \in {e \in NickEvents : e.channels = <<<<"#", "c">>>>} :
           IrcNick(c, event)
    \/ \E c \in DOMAIN clients, event \in {e \in TopicEvents : e.channel = <<"#", "c">>} :
           IrcTopic(c, event)
    \/ \E c \in DOMAIN clients, event \in {e \in ModeEvents : e.target = <<"#", "c">>} :
           IrcMode(c, event)
    \/ \E c \in DOMAIN clients, event \in {e \in KickEvents : e.channel = <<"#", "c">>} :
           IrcKick(c, event)
    \/ Render

SpecEvents == Init /\ [][NextEvents]_vars

\* The session's own nickname: nick and kick events about it, private
\* messages, and the joined channel '#a', whose log has room for the kick
\* that follows a nickname change.
NextSelf ==
    \/ HandleConnectUpTo(1)
    \/ JoinChannel(<<"#", "a">>)
    \/ \E c \in DOMAIN clients : SocketOpen(c)
    \/ \E c \in DOMAIN clients : Registered(c)
    \/ \E c \in DOMAIN clients,
          event \in {e \in MessageEvents :
                        ~StartsWithHash(e.target) /\ e.nick = <<"a", "l">>} :
           IrcMessage(c, event)
    \/ \E c \in DOMAIN clients, event \in OwnNickEvents : IrcNick(c, event)
    \/ \E c \in DOMAIN clients,
          event \in OwnKickEvents \cup {e \in KickEvents : e.channel = <<"#", "A">>} :
           IrcKickUpTo(c, event, MaxMsgs + 1)
    \/ Render

SpecSelf == Init /\ [][NextSelf]_vars

\* Texts and slash commands sent to the joined channel '#a'.
NextSend ==
    \/ HandleConnectUpTo(1)
    \/ HandleDisconnect
    \/ JoinChannel(<<"#", "a">>)
    \/ \E text \in SendInputs \cup SlashInputs : SendText(text)
    \/ \E c \in DOMAIN clients : SocketOpen(c)
    \/ \E c \in DOMAIN clients : Registered(c)
    \/ Render

SpecSend == Init /\ [][NextSend]_vars

\* The nickname saved in the settings dialog, and the nick events that
\* answer it.
NextSettings ==
    \/ HandleConnectUpTo(1)
    \/ HandleSaveSettings
    \/ JoinChannel(<<"#", "a">>)
    \/ \E c \in DOMAIN clients : SocketOpen(c)
    \/ \E c \in DOMAIN clients : Registered(c)
    \/ \E c \in DOMAIN clients, event \in OwnNickEvents : IrcNick(c, event)
    \/ Render

SpecSettings == Init /\ [][NextSettings]_vars

\* Channel discovery in one session.
NextDiscovery ==
    \/ HandleConnectUpTo(1)
    \/ \E c \in DOMAIN clients : SocketOpen(c)
    \/ \E c \in DOMAIN clients : Registered(c)
    \/ \E c \in DOMAIN clients : ChannelListStart(c)
    \/ \E c \in DOMAIN clients, event \in DiscoveryItems : DiscoveryItem(c, event)
    \/ \E c \in DOMAIN clients : ChannelListEnd(c)
    \/ Render

SpecDiscovery == Init /\ [][NextDiscovery]_vars

-----------------------------------------------------------------------------
(* Properties.                                                             *)

ConnectionClassKinds == {"ErrorLookingUpHost", "SocketError", "ConnectionRefused"}

LastLog == serverLogMessages[Len(serverLogMessages)]

ListRequests(sent) == Cardinality({i \in DOMAIN sent : sent[i].cmd = "list"})

ConnectRequests(sent) == Cardinality({i \in DOMAIN sent : sent[i].cmd = "connect"})

\* C1: connectionState changes only from Disconnected to Connecting on a
\* connect command, from Connecting to Connected on a registered event, and
\* from Connecting or Connected to Disconnected on a close, socket-close or
\* connection-class error event or a disconnect command.
C1_OnlyListedTransitions ==
    [][connectionState' # connectionState =>
         \/ /\ connectionState = "Disconnected" /\ connectionState' = "Connecting"
            /\ last'.op = "connect"
         \/ /\ connectionState = "Connecting" /\ connectionState' = "Connected"
            /\ last'.op = "registered"
         \/ /\ connectionState \in {"Connecting", "Connected"}
            /\ connectionState' = "Disconnected"
            /\ \/ last'.op \in {"close", "socketClose", "disconnect"}
               \/ last'.op = "error" /\ last'.kind \in ConnectionClassKinds]_vars

\* C2: a connect command issued in any Disconnected state leaves the channel
\* list and the discovery list empty, the server log with exactly the
\* 'attempting to connect' message, connectionState Connecting, and one
\* connect request forwarded to the protocol layer.
C2_ConnectFromDisconnected ==
    [][(connectionState = "Disconnected" /\ HandleConnect) =>
         /\ channels' = <<>>
         /\ availableChannels' = <<>>
         /\ Len(serverLogMessages') = 1
         /\ serverLogMessages'[1].content.kind = "Attempting to connect to"
         /\ connectionState' = "Connecting"
         /\ ConnectRequests(last'.sent) = 1]_vars

\* C3: when disconnect was issued while Connected and the transport then
\* delivers the close event of that connection, the session becomes
\* Disconnected, the channel list and the discovery list are empty and a
\* message with the reason is appended to the server log.
C3_CloseAfterDisconnect ==
    [][\A c \in DOMAIN clients :
         (/\ Close(c)
          /\ clients[c].quitReason = "Client disconnected"
          /\ clients[c].phase = "registered"
          /\ connectionState = "Connected"
          /\ activeServer[1].id = clients[c].serverId) =>
         /\ connectionState' = "Disconnected"
         /\ channels' = <<>>
         /\ availableChannels' = <<>>
         /\ Len(serverLogMessages') = Len(serverLogMessages) + 1
         /\ serverLogMessages'[Len(serverLogMessages')].content.kind = "Disconnected from"]_vars

\* C4: a disconnect command issued while connectionState is Connecting
\* leaves connectionState Disconnected, whether or not the transport emits a
\* close event afterwards.
C4_DisconnectWhileConnecting ==
    [][(connectionState = "Connecting" /\ HandleDisconnect) =>
         connectionState' = "Disconnected"]_vars

\* C5: a connect command issued while connectionState is Connecting changes
\* nothing: the server session, the channels, the discovery list and the
\* server log stay as they are, no connect request is forwarded and the
\* pending connection is not torn down.
C5_ConnectWhileConnecting ==
    [][(connectionState = "Connecting" /\ HandleConnectUpTo(MaxClients + 1)) =>
         /\ UNCHANGED <<activeServer, channels, availableChannels, serverLogMessages>>
         /\ ConnectRequests(last'.sent) = 0
         /\ UNCHANGED <<svcClient, clients>>]_vars

\* C6: a registered event of the session's connection makes the session
\* Connected and sends exactly one discovery (list) request.
C6_RegisteredListsOnce ==
    [][\A c \in DOMAIN clients :
         (Registered(c) /\ svcClient = c /\ connectionState = "Connecting") =>
         /\ connectionState' = "Connected"
         /\ ListRequests(last'.sent) = 1]_vars

C9_FatalErrorClears ==
    [][\A c \in DOMAIN clients, errType \in ConnectionClassKinds :
         (IrcError(c, errType) /\ svcClient = c) =>
         (channels' = <<>> /\ availableChannels' = <<>>)]_vars

\* C10: no two entries of the channel list have the same id.
C10_ChannelIdsUnique ==
    \A i, j \in DOMAIN channels : i # j => channels[i].id # channels[j].id

C10_Witness ==
    /\ last.op = "join" /\ last.signals = <<"Already joined">>
    /\ Len(channels) = 2
    /\ \E i \in DOMAIN channels : ~StartsWithHash(channels[i].name)

\* C11: no channel has two members whose nicknames are equal after
\* lower-casing.
C11_MembersUnique ==
    \A i \in DOMAIN channels :
        \A j, k \in DOMAIN channels[i].users :
            j # k => ToLowerCase(channels[i].users[j].nickname)
                       # ToLowerCase(channels[i].users[k].nickname)

IsPrefix(s, t) == Len(s) <= Len(t) /\ SubSeq(t, 1, Len(s)) = s

\* C12: while a channel exists its message log only grows at the end: after
\* every command or event, the log of a channel that is still in the list
\* starts with the log it had before.
C12_LogAppendOnly ==
    [][\A i \in DOMAIN channels, j \in DOMAIN channels' :
         channels[i].id = channels'[j].id =>
             IsPrefix(channels[i].messages, channels'[j].messages)]_vars

C12_Witness ==
    /\ last.op \in {"joinEvent", "partEvent", "quitEvent", "nickEvent", "modeEvent",
                    "kickEvent", "message", "send"}
    /\ \E i \in DOMAIN channels :
          /\ Len(channels[i].messages) = 2
          /\ channels[i].messages[1].content.kind = "Joining"
          /\ channels[i].messages[2].type \in {"join", "part", "quit", "nick", "mode",
                                               "kick", "message"}

\* executeJoinChannel: the name and the id derived from the name typed
ProperChannelName(name) ==
    IF StartsWithHash(name) THEN Trim(name) ELSE <<"#">> \o Trim(name)

ChannelIdOf(serverId, name) == serverId \o ToLowerCase(ProperChannelName(name))

Cmds(sent) == [k \in DOMAIN sent |-> sent[k].cmd]

\* C13: a join issued while Connected that is followed at once by a part of
\* the resulting id leaves no entry with that id in the channel list, and
\* the two commands forward one join and one part to the protocol layer.
C13_JoinThenPart ==
    [][(/\ last.op = "join"
        /\ last.signals = <<>>
        /\ connectionState = "Connected"
        /\ HasId(channels, ChannelIdOf(activeServer[1].id, last.arg))
        /\ last'.op = "leave"
        /\ last'.arg = ChannelIdOf(activeServer[1].id, last.arg)) =>
       (/\ ~HasId(channels', last'.arg)
        /\ Cmds(last.sent) = <<"join">>
        /\ Cmds(last'.sent) = <<"part">>)]_vars

\* C14: while Connected, a join whose name differs only by letter case from
\* the name of the join before it is answered with "Already joined": the list
\* holds exactly
\* one entry with the id and no join command is forwarded.
C14_JoinTwiceByCase ==
    [][(/\ last.op = "join"
        /\ connectionState = "Connected"
        /\ last'.op = "join"
        /\ last'.arg # last.arg
        /\ ToLowerCase(ProperChannelName(last'.arg)) = ToLowerCase(ProperChannelName(last.arg))
        /\ activeServer # <<>>
        /\ HasId(channels, ChannelIdOf(activeServer[1].id, last.arg))) =>
       (/\ last'.signals = <<"Already joined">>
        /\ Cardinality({i \in DOMAIN channels' :
                          channels'[i].id = ChannelIdOf(activeServer[1].id, last.arg)}) = 1
        /\ Cmds(last'.sent) = <<>>)]_vars

C14_Witness ==
    /\ last.op = "join"
    /\ last.arg = <<"#", "A">>
    /\ last.signals = <<"Already joined">>
    /\ \E i \in DOMAIN channels : channels[i].name = <<"#", "a">>

\* C15: while Connected, a join whose derived id is already in the channel
\* list leaves the channel list (members, messages, topics), the discovery
\* list, the server log and the connection untouched and forwards no
\* command; it only makes that id the active target.
C15_JoinExistingFrame ==
    [][\A name \in JoinInputs :
         (/\ JoinChannel(name)
          /\ connectionState = "Connected"
          /\ HasId(channels, ChannelIdOf(activeServer[1].id, name))) =>
         (/\ channels' = channels
          /\ availableChannels' = availableChannels
          /\ serverLogMessages' = serverLogMessages
          /\ activeServer' = activeServer
          /\ isListingChannels' = isListingChannels
          /\ last'.sent = <<>>
          /\ activeChannelId' = ChannelIdOf(activeServer[1].id, name))]_vars

C15_Witness ==
    /\ last.op = "join"
    /\ last.signals = <<"Already joined">>
    /\ Len(channels) = 2
    /\ activeChannelId = channels[1].id
    /\ serverLogMessages # <<>>

\* C16: a join, part or send command issued while the connection state is
\* Disconnected (and shown as such on the screen) leaves the channel list,
\* with its members and logs, unchanged and forwards no command.
C16_CommandsWhileDisconnected ==
    [][((ExecuteJoinChannel \/ HandleLeaveChannel \/ HandleSendMessage)
        /\ connectionState = "Disconnected"
        /\ rendered = Snapshot(World)) =>
       (channels' = channels /\ last'.sent = <<>>)]_vars

\* no entry of the channel list has the id the listeners derive from name
Absent(c, name) == ~HasId(channels, clients[c].serverId \o ToLowerCase(name))

\* no entry of the channel list is named in the list of a quit or nick event
NoneLocal(names) ==
    \A i \in DOMAIN channels, k \in DOMAIN names :
        ToLowerCase(channels[i].name) # ToLowerCase(names[k])

\* C17: an event that refers to a channel which is not in the channel list
\* (join, part, topic, user list, mode, kick, a message to a channel name; a
\* quit or nick whose channels are all unknown, the nick of a user who is in
\* no local channel) leaves the channel list, with its members and logs,
\* unchanged.
C17_AbsentChannelEvents ==
    [][\A c \in DOMAIN clients :
         /\ \A e \in JoinEvents :
                (Absent(c, e.channel) /\ last'.op = "joinEvent" /\ IrcJoin(c, e))
                    => channels' = channels
         /\ \A e \in PartEvents :
                (Absent(c, e.channel) /\ last'.op = "partEvent" /\ IrcPart(c, e))
                    => channels' = channels
         /\ \A e \in TopicEvents :
                (Absent(c, e.channel) /\ last'.op = "topicEvent" /\ IrcTopic(c, e))
                    => channels' = channels
         /\ \A e \in UserListEvents :
                (Absent(c, e.channel) /\ last'.op = "userListEvent" /\ IrcUserList(c, e))
                    => channels' = channels
         /\ \A e \in KickEvents :
                (Absent(c, e.channel) /\ last'.op = "kickEvent" /\ IrcKick(c, e))
                    => channels' = channels
         /\ \A e \in ModeEvents :
                (/\ StartsWithHash(e.target) /\ Absent(c, e.target)
                 /\ last'.op = "modeEvent" /\ IrcMode(c, e))
                    => channels' = channels
         /\ \A e \in MessageEvents :
                (/\ StartsWithHash(e.target) /\ Absent(c, e.target)
                 /\ last'.op = "message" /\ IrcMessage(c, e))
                    => channels' = channels
         /\ \A e \in QuitEvents :
                (NoneLocal(e.channels) /\ last'.op = "quitEvent" /\ IrcQuit(c, e))
                    => channels' = channels
         /\ \A e \in NickEvents :
                (/\ NoneLocal(e.channels)
                 /\ \A i \in DOMAIN channels : ~HasNick(channels[i].users, e.nick)
                 /\ last'.op = "nickEvent"
                 /\ IrcNick(c, e))
                    => channels' = channels]_vars

C17_Witness ==
    /\ last.op = "userListEvent"
    /\ last.arg = <<"#", "c">>
    /\ Len(channels) = 1
    /\ Len(channels[1].messages) = 2
    /\ \A i \in DOMAIN channels : channels[i].name # <<"#", "c">>

InList(name, names) == \E k \in DOMAIN names : ToLowerCase(names[k]) = ToLowerCase(name)

\* C18: a quit event for a nickname with a channel list removes the nickname
\* from the members of every local channel named in the list and appends
\* exactly one quit message to its log; every other channel is untouched.
C18_QuitEvent ==
    [][\A c \in DOMAIN clients, e \in QuitEvents :
         (last'.op = "quitEvent" /\ IrcQuit(c, e)) =>
         (/\ Len(channels') = Len(channels)
          /\ \A i \in DOMAIN channels :
                IF InList(channels[i].name, e.channels)
                THEN /\ channels'[i].id = channels[i].id
                     /\ channels'[i].name = channels[i].name
                     /\ channels'[i].topic = channels[i].topic
                     /\ channels'[i].users =
                            SelectSeq(channels[i].users,
                                      LAMBDA u : ToLowerCase(u.nickname) # ToLowerCase(e.nick))
                     /\ Len(channels'[i].messages) = Len(channels[i].messages) + 1
                     /\ IsPrefix(channels[i].messages, channels'[i].messages)
                     /\ channels'[i].messages[Len(channels'[i].messages)].type = "quit"
                     /\ channels'[i].messages[Len(channels'[i].messages)].nickname = e.nick
                ELSE channels'[i] = channels[i])]_vars

C18_Witness ==
    /\ last.op = "quitEvent"
    /\ Len(channels) = 2
    /\ \A i \in DOMAIN channels :
          /\ Len(channels[i].messages) = 2
          /\ channels[i].messages[2].type = "quit"
          /\ ~HasNick(channels[i].users, <<"a", "l">>)

\* C19: after a nick event every channel that had the old nickname among its
\* members has the new nickname and no longer the old one, and the messages
\* already in its log keep their nickname.
C19_NickEvent ==
    [][\A c \in DOMAIN clients, e \in NickEvents :
         (last'.op = "nickEvent" /\ IrcNick(c, e)) =>
         (/\ Len(channels') = Len(channels)
          /\ \A i \in DOMAIN channels :
                HasNick(channels[i].users, e.nick) =>
                    /\ channels'[i].id = channels[i].id
                    /\ HasNick(channels'[i].users, e.new_nick)
                    /\ ~HasNick(channels'[i].users, e.nick)
                    /\ Len(channels'[i].users) = Len(channels[i].users)
                    /\ \A k \in DOMAIN channels[i].messages :
                          channels'[i].messages[k].nickname = channels[i].messages[k].nickname)]_vars

C19_Witness ==
    /\ last.op = "nickEvent"
    /\ \E i \in DOMAIN channels :
          /\ Len(channels[i].messages) = 2
          /\ channels[i].messages[1].type = "message"
          /\ ToLowerCase(channels[i].messages[1].nickname) = <<"a", "l">>
          /\ channels[i].messages[2].type = "nick"
          /\ HasNick(channels[i].users, <<"c", "y">>)
          /\ ~HasNick(channels[i].users, <<"a", "l">>)

\* s is not after t in the ascending order of the lower-cased names
RECURSIVE FoldedLeq(_, _)
FoldedLeq(s, t) ==
    IF s = <<>> THEN TRUE
    ELSE IF t = <<>> THEN FALSE
    ELSE IF LowerChar(Head(s)) = LowerChar(Head(t)) THEN FoldedLeq(Tail(s), Tail(t))
    ELSE CharRank(Head(s)) < CharRank(Head(t))

\* a may stand before b in the discovery list
InOrder(a, b) ==
    IF a.userCount # <<>> /\ b.userCount # <<>>
    THEN \/ a.userCount[1] > b.userCount[1]
         \/ a.userCount[1] = b.userCount[1] /\ FoldedLeq(a.name, b.name)
    ELSE IF a.userCount # <<>> THEN TRUE
    ELSE IF b.userCount # <<>> THEN FALSE
    ELSE FoldedLeq(a.name, b.name)

Occurrences(list, x) == Cardinality({i \in DOMAIN list : list[i] = x})

\* C20: after the end of a discovery the list is a permutation of what it
\* was, with the entries that have a user count before those that have none,
\* larger counts first, equal counts in ascending order of the names
\* compared without regard to case, and the entries without a count in that
\* order of names too.
C20_DiscoverySorted ==
    [][\A c \in DOMAIN clients :
         (last'.op = "listEnd" /\ ChannelListEnd(c)) =>
         (/\ Len(availableChannels') = Len(availableChannels)
          /\ \A i \in DOMAIN availableChannels :
                Occurrences(availableChannels', availableChannels[i])
                    = Occurrences(availableChannels, availableChannels[i])
          /\ \A i, j \in DOMAIN availableChannels' :
                i < j => InOrder(availableChannels'[i], availableChannels'[j]))]_vars

C20_Witness ==
    /\ last.op = "listEnd"
    /\ Len(availableChannels) = 3
    /\ availableChannels[1].name = <<"#", "b">> /\ availableChannels[1].userCount = <<10>>
    /\ availableChannels[2].name = <<"#", "a">> /\ availableChannels[2].userCount = <<5>>
    /\ availableChannels[3].name = <<"#", "c">> /\ availableChannels[3].userCount = <<>>

\* C21: the discovery list holds entries only inside a discovery cycle, that
\* is after a discovery-start event and before the discovery-end event that
\* follows it; in every other state it is empty.
C21_DiscoveryOnlyWhileListing ==
    availableChannels # <<>> => isListingChannels

\* C22: while Connected, a private message from a nickname for which there is no channel with
\* the id serverId + lower-cased nickname creates exactly one channel with
\* that id, whose members are the session's nickname and the sender and whose
\* log is that message; if the channel exists the message is appended to it
\* and no channel is created.
C22_PrivateMessage ==
    [][\A c \in DOMAIN clients, e \in MessageEvents :
         (/\ ~StartsWithHash(e.target)
          /\ connectionState = "Connected"
          /\ last'.op = "message"
          /\ IrcMessage(c, e)) =>
         LET id == clients[c].serverId \o ToLowerCase(e.nick)
         IN  IF HasId(channels, id)
             THEN /\ Len(channels') = Len(channels)
                  /\ \A i \in DOMAIN channels :
                        IF channels[i].id = id
                        THEN /\ Len(channels'[i].messages) = Len(channels[i].messages) + 1
                             /\ IsPrefix(channels[i].messages, channels'[i].messages)
                             /\ channels'[i].messages[Len(channels'[i].messages)].nickname
                                    = e.nick
                             /\ channels'[i].users = channels[i].users
                        ELSE channels'[i] = channels[i]
             ELSE /\ Len(channels') = Len(channels) + 1
                  /\ IsPrefix(channels, channels')
                  /\ channels'[Len(channels')].id = id
                  /\ channels'[Len(channels')].users
                         = <<User(activeServer[1].nickname), User(e.nick)>>
                  /\ Len(channels'[Len(channels')].messages) = 1
                  /\ channels'[Len(channels')].messages[1].nickname = e.nick
                  /\ channels'[Len(channels')].messages[1].type = "message"]_vars

\* C23: while Connected, a kick event for a channel of the list removes the
\* kicked nickname from its members (compared without regard to case) and
\* appends exactly one kick message carrying the kicked nickname, the
\* kicker and the reason; when the kicked nickname is the session's own, a
\* signal naming the channel is raised.
C23_KickEvent ==
    [][\A c \in DOMAIN clients, e \in KickEvents \cup OwnKickEvents :
         (/\ connectionState = "Connected"
          /\ HasId(channels, clients[c].serverId \o ToLowerCase(e.channel))
          /\ last'.op = "kickEvent"
          /\ IrcKickUpTo(c, e, MaxMsgs + 1)) =>
         (/\ Len(channels') = Len(channels)
          /\ \A i \in DOMAIN channels :
                IF channels[i].id = clients[c].serverId \o ToLowerCase(e.channel)
                THEN /\ channels'[i].users =
                            SelectSeq(channels[i].users,
                                      LAMBDA u : ToLowerCase(u.nickname) # ToLowerCase(e.kicked))
                     /\ Len(channels'[i].messages) = Len(channels[i].messages) + 1
                     /\ IsPrefix(channels[i].messages, channels'[i].messages)
                     /\ LET m == channels'[i].messages[Len(channels'[i].messages)]
                        IN  /\ m.type = "kick"
                            /\ m.nickname = e.nick
                            /\ m.content.a = e.kicked
                            /\ m.content.b = e.message
                ELSE channels'[i] = channels[i]
          /\ ToLowerCase(e.kicked) = ToLowerCase(activeServer[1].nickname) =>
                \E k \in DOMAIN last'.viewSignals :
                    /\ last'.viewSignals[k].kind = "Kicked from"
                    /\ last'.viewSignals[k].channel = ToLowerCase(e.channel))]_vars

OnScreen(i) ==
    /\ rendered = Snapshot(World)
    /\ i \in DOMAIN channels
    /\ channels[i].id = activeChannelId

\* C25: while Connected, sending a plain text or a '/me ' action to the
\* channel on the screen appends at once exactly one message of the session's
\* own (isSelf, of type message or action) to that channel's log.
C25_SelfMessage ==
    [][\A text \in SendInputs, i \in DOMAIN channels :
         (/\ connectionState = "Connected"
          /\ OnScreen(i)
          /\ last'.op = "send"
          /\ SendText(text)) =>
         (/\ Len(channels'[i].messages) = Len(channels[i].messages) + 1
          /\ IsPrefix(channels[i].messages, channels'[i].messages)
          /\ LET m == channels'[i].messages[Len(channels'[i].messages)]
             IN  /\ m.isSelf
                 /\ m.nickname = activeServer[1].nickname
                 /\ m.type = IF StartsWith(text, <<"/", "m", "e", " ">>)
                             THEN "action" ELSE "message")]_vars

NoticePrefix == <<"/", "n", "o", "t", "i", "c", "e", " ">>

QueryPrefix == <<"/", "q", "u", "e", "r", "y", " ">>

\* a '/notice ' text that lacks the target or the text to send
MalformedNotice(text) ==
    /\ StartsWith(text, NoticePrefix)
    /\ \/ Len(SplitBlank(text)) < 3
       \/ SplitBlank(text)[2] = NoStr
       \/ JoinBlank(SubSeq(SplitBlank(text), 3, Len(SplitBlank(text)))) = NoStr

\* the service has a transport client that is connected
LiveClient == svcClient # 0 /\ clients[svcClient].connected

\* C26: while Connected, sending a '/notice ' text that lacks the target or
\* the text forwards nothing and is reported as an error.
C26_MalformedNotice ==
    [][\A text \in SlashInputs, i \in DOMAIN channels :
         (/\ MalformedNotice(text)
          /\ connectionState = "Connected"
          /\ LiveClient
          /\ OnScreen(i)
          /\ last'.op = "send"
          /\ SendText(text)) =>
         (/\ last'.sent = <<>>
          /\ last'.threw \/ last'.signals # <<>>)]_vars

\* C27: while Connected, sending '/query <nick>' forwards nothing and leaves
\* the channel list unchanged; it appends one informational message to the
\* server log.
C27_Query ==
    [][\A text \in SlashInputs, i \in DOMAIN channels :
         (/\ StartsWith(text, QueryPrefix)
          /\ connectionState = "Connected"
          /\ OnScreen(i)
          /\ last'.op = "send"
          /\ SendText(text)) =>
         (/\ last'.sent = <<>>
          /\ channels' = channels
          /\ Len(serverLogMessages') = Len(serverLogMessages) + 1
          /\ IsPrefix(serverLogMessages, serverLogMessages')
          /\ serverLogMessages'[Len(serverLogMessages')].type = "info")]_vars

\* C28: while Connected, saving the nickname the session already has
\* forwards no command and leaves the nickname as it is; saving a different
\* nickname forwards a nick command.
C28_ChangeNick ==
    [][\A newNickname \in SettingsInputs :
         (/\ connectionState = "Connected"
          /\ LiveClient
          /\ rendered = Snapshot(World)
          /\ last'.op = "saveSettings"
          /\ SaveSettings(newNickname)) =>
         IF newNickname = activeServer[1].nickname
         THEN /\ last'.sent = <<>>
              /\ activeServer'[1].nickname = activeServer[1].nickname
         ELSE /\ Cmds(last'.sent) = <<"nick">>
              /\ last'.sent[1].arg = newNickname]_vars

\* C29: while Connected, a nick event whose old nickname equals the
\* session's own without regard to case sets the session nickname to the new
\* one; any other nick event leaves the session nickname unchanged.
C29_OwnNickEvent ==
    [][\A c \in DOMAIN clients, e \in NickEvents \cup OwnNickEvents :
         (/\ connectionState = "Connected"
          /\ last'.op = "nickEvent"
          /\ IrcNick(c, e)) =>
         /\ activeServer' # <<>>
         /\ activeServer'[1].nickname =
                IF ToLowerCase(e.nick) = ToLowerCase(activeServer[1].nickname)
                THEN e.new_nick
                ELSE activeServer[1].nickname]_vars

\* C30: every event and command is reduced against the committed state: the
\* result of a join command that follows another join command, of a message
\* event, of a nick event or of a kick event is the one its handler computes
\* from the session nickname, the active channel and the channel list as all
\* earlier events and commands left them.
C30_NoStaleState ==
    [][/\ \A name \in JoinInputs :
            (last.op = "join" /\ last'.op = "join" /\ JoinChannel(name)) =>
            LET w == ExecuteJoinChannelW(World, Snapshot(World), name)
            IN  /\ channels' = w.channels
                /\ activeChannelId' = w.activeChannelId
                /\ last'.sent = w.sent
                /\ last'.signals = w.signals
       /\ \A c \in DOMAIN clients :
            /\ \A e \in MessageEvents :
                  (last'.op = "message" /\ IrcMessage(c, e)) =>
                  channels' = SvcOnMessage(World, Snapshot(World), c, e).channels
            /\ \A e \in NickEvents \cup OwnNickEvents :
                  (last'.op = "nickEvent" /\ IrcNick(c, e)) =>
                  activeServer' = SvcOnNick(World, Snapshot(World), c, e).activeServer
            /\ \A e \in KickEvents \cup OwnKickEvents :
                  (last'.op = "kickEvent" /\ IrcKickUpTo(c, e, MaxMsgs + 1)) =>
                  LET w == SvcOnKick(World, Snapshot(World), c, e)
                  IN  /\ activeChannelId' = w.activeChannelId
                      /\ last'.viewSignals = w.viewSignals]_vars

\* C31: while Connected, a join for a name whose id is not in the channel
\* list adds exactly one placeholder entry, whose only member is the
\* session's own nickname, and forwards exactly one join command for the
\* name with its '#'.
C31_JoinNewChannel ==
    [][\A name \in JoinInputs :
         (/\ connectionState = "Connected"
          /\ rendered = Snapshot(World)
          /\ ~HasId(channels, ChannelIdOf(activeServer[1].id, name))
          /\ last'.op = "join"
          /\ JoinChannel(name)) =>
         (/\ Len(channels') = Len(channels) + 1
          /\ IsPrefix(channels, channels')
          /\ channels'[Len(channels')].id = ChannelIdOf(activeServer[1].id, name)
          /\ channels'[Len(channels')].users = <<User(activeServer[1].nickname)>>
          /\ Cmds(last'.sent) = <<"join">>
          /\ last'.sent[1].arg = ProperChannelName(name))]_vars

\* C32: a join event for a channel of the list adds the user to its members
\* only if no member has the same nickname without regard to case, and
\* appends exactly one join message to its log in either case.
C32_JoinEvent ==
    [][\A c \in DOMAIN clients, e \in JoinEvents \cup OwnJoinEvents :
         (/\ ~Absent(c, e.channel)
          /\ last'.op = "joinEvent"
          /\ IrcJoin(c, e)) =>
         (/\ Len(channels') = Len(channels)
          /\ \A i \in DOMAIN channels :
                IF channels[i].id = clients[c].serverId \o ToLowerCase(e.channel)
                THEN /\ channels'[i].users =
                            IF \E k \in DOMAIN channels[i].users :
                                   ToLowerCase(channels[i].users[k].nickname)
                                       = ToLowerCase(e.nick)
                            THEN channels[i].users
                            ELSE Append(channels[i].users, User(e.nick))
                     /\ Len(channels'[i].messages) = Len(channels[i].messages) + 1
                     /\ IsPrefix(channels[i].messages, channels'[i].messages)
                     /\ channels'[i].messages[Len(channels'[i].messages)].type = "join"
                     /\ channels'[i].messages[Len(channels'[i].messages)].nickname = e.nick
                ELSE channels'[i] = channels[i])]_vars

C32_Witness ==
    /\ last.op = "joinEvent"
    /\ last.arg = <<"A", "l">>
    /\ \E i \in DOMAIN channels :
          /\ channels[i].users = <<User(<<"b", "o">>), User(<<"a", "l">>)>>
          /\ Len(channels[i].messages) = 2
          /\ channels[i].messages[2].type = "join"
          /\ channels[i].messages[2].nickname = <<"A", "l">>

\* C39: when the server confirms, with a join event for the session's own
\* nickname, the join of a channel that the join command has put in the list,
\* the list holds that channel exactly once and the channel has exactly one
\* member entry for the own nickname.
C39_JoinConfirmed ==
    [][\A c \in DOMAIN clients, e \in OwnJoinEvents :
         (/\ ~Absent(c, e.channel)
          /\ last'.op = "joinEvent"
          /\ IrcJoin(c, e)) =>
         (/\ activeServer' # <<>>
          /\ Cardinality({i \in DOMAIN channels' :
                 channels'[i].id = clients[c].serverId \o ToLowerCase(e.channel)}) = 1
          /\ \A i \in DOMAIN channels' :
                channels'[i].id = clients[c].serverId \o ToLowerCase(e.channel) =>
                Cardinality({k \in DOMAIN channels'[i].users :
                    ToLowerCase(channels'[i].users[k].nickname)
                        = ToLowerCase(activeServer'[1].nickname)}) = 1)]_vars

C39_Witness ==
    /\ last.op = "joinEvent"
    /\ last.arg = <<"B", "o">>
    /\ Len(channels) = 2
    /\ \E i \in DOMAIN channels :
          /\ channels[i].name = <<"#", "a">>
          /\ channels[i].users = <<User(<<"b", "o">>)>>
          /\ channels[i].messages[Len(channels[i].messages)].type = "join"
          /\ channels[i].messages[Len(channels[i].messages)].nickname = <<"B", "o">>

\* C33: a nick event appends exactly one nick message to the log of every
\* channel that has the old nickname among its members or is named in the
\* event's list of channels, and leaves the log of every other channel as it
\* was.
C33_NickMessage ==
    [][\A c \in DOMAIN clients, e \in NickEvents :
         (last'.op = "nickEvent" /\ IrcNick(c, e)) =>
         (/\ Len(channels') = Len(channels)
          /\ \A i \in DOMAIN channels :
                IF \/ \E k \in DOMAIN channels[i].users :
                          ToLowerCase(channels[i].users[k].nickname) = ToLowerCase(e.nick)
                   \/ \E k \in DOMAIN e.channels :
                          ToLowerCase(e.channels[k]) = ToLowerCase(channels[i].name)
                THEN /\ Len(channels'[i].messages) = Len(channels[i].messages) + 1
                     /\ IsPrefix(channels[i].messages, channels'[i].messages)
                     /\ channels'[i].messages[Len(channels'[i].messages)].type = "nick"
                     /\ channels'[i].messages[Len(channels'[i].messages)].nickname = e.new_nick
                ELSE channels'[i].messages = channels[i].messages)]_vars

\* the channel named by the event has a nick message although the old
\* nickname was not a member
C33_Witness ==
    /\ last.op = "nickEvent"
    /\ \E i \in DOMAIN channels :
          /\ channels[i].name = <<"#", "a">>
          /\ channels[i].users = <<User(<<"b", "o">>)>>
          /\ channels[i].messages[Len(channels[i].messages)].type = "nick"
          /\ channels[i].messages[Len(channels[i].messages)].nickname = <<"B", "o">>

\* C34: after a user-list snapshot for a channel of the list, the members of
\* that channel are the users of the snapshot in the snapshot's order, with
\* nothing kept of the members it had; its other fields, its log among them,
\* and every other channel are as they were.
C34_UserListSnapshot ==
    [][\A c \in DOMAIN clients, e \in UserListEvents :
         (/\ ~Absent(c, e.channel)
          /\ last'.op = "userListEvent"
          /\ IrcUserList(c, e)) =>
         (/\ Len(channels') = Len(channels)
          /\ \A i \in DOMAIN channels :
                IF channels[i].id = clients[c].serverId \o ToLowerCase(e.channel)
                THEN /\ Len(channels'[i].users) = Len(e.users)
                     /\ \A k \in DOMAIN e.users : channels'[i].users[k].nickname = e.users[k]
                     /\ channels'[i] = [channels[i] EXCEPT !.users = channels'[i].users]
                ELSE channels'[i] = channels[i])]_vars

\* the snapshot replaced the member 'Al', who had joined, by its own 'al'
C34_Witness ==
    /\ last.op = "userListEvent"
    /\ \E i \in DOMAIN channels :
          /\ channels[i].users = <<User(<<"b", "o">>), User(<<"a", "l">>)>>
          /\ \E k \in DOMAIN channels[i].messages :
                /\ channels[i].messages[k].type = "join"
                /\ channels[i].messages[k].nickname = <<"A", "l">>

\* C35: a mode event whose target starts with '#' appends exactly one mode
\* message to the log of the channel of the list that has the target's id
\* and nothing to the server log; a mode event with any other target appends
\* exactly one mode message to the server log and nothing to any channel.
\* In both cases the members of every channel are as they were.
C35_ModeEvent ==
    [][\A c \in DOMAIN clients, e \in ModeEvents :
         (last'.op = "modeEvent" /\ IrcMode(c, e)) =>
         (/\ Len(channels') = Len(channels)
          /\ \A i \in DOMAIN channels : channels'[i].users = channels[i].users
          /\ IF e.target[1] = "#"
             THEN /\ serverLogMessages' = serverLogMessages
                  /\ \A i \in DOMAIN channels :
                        IF channels[i].id = clients[c].serverId \o ToLowerCase(e.target)
                        THEN /\ Len(channels'[i].messages) = Len(channels[i].messages) + 1
                             /\ IsPrefix(channels[i].messages, channels'[i].messages)
                             /\ channels'[i].messages[Len(channels'[i].messages)].type = "mode"
                        ELSE channels'[i] = channels[i]
             ELSE /\ channels' = channels
                  /\ Len(serverLogMessages') = Len(serverLogMessages) + 1
                  /\ IsPrefix(serverLogMessages, serverLogMessages')
                  /\ serverLogMessages'[Len(serverLogMessages')].type = "mode")]_vars

\* both cases have happened: '#a' holds a mode message and so does the
\* server log
C35_Witness ==
    /\ last.op = "modeEvent"
    /\ \E k \in DOMAIN serverLogMessages : serverLogMessages[k].type = "mode"
    /\ \E i \in DOMAIN channels :
          /\ Len(channels[i].users) = 2
          /\ channels[i].messages[Len(channels[i].messages)].type = "mode"

\* C36: when one of the transport's close and socket-close events has
\* written the 'Disconnected' message of a connection to the server log, the
\* other event of the same connection, arriving next, writes no second one,
\* in whichever order the two arrive.
C36_OneDisconnectNotification ==
    [][\A c \in DOMAIN clients :
         (/\ last.client = c
          /\ serverLogMessages # <<>>
          /\ LastLog.content.kind = "Disconnected from"
          /\ \/ last.op = "socketClose" /\ last'.op = "close" /\ Close(c)
             \/ last.op = "close" /\ last'.op = "socketClose" /\ SocketClose(c)) =>
         serverLogMessages' = serverLogMessages]_vars

\* C37: a close or socket-close event of a connection that a later connect
\* command has replaced leaves the newer session as it is: the connection
\* state, the channels and the client the service holds do not change.
C37_SupersededClose ==
    [][\A c \in DOMAIN clients :
         (/\ svcClient # 0
          /\ c < svcClient
          /\ \/ last'.op = "close" /\ Close(c)
             \/ last'.op = "socketClose" /\ SocketClose(c)) =>
         (/\ connectionState' = connectionState
          /\ channels' = channels
          /\ svcClient' = svcClient)]_vars

\* C38: while connectionState is Disconnected the channel list and the
\* discovery list are empty.
C38_DisconnectedListsEmpty ==
    connectionState = "Disconnected" => (channels = <<>> /\ availableChannels = <<>>)

\* C40: a send forwards a privmsg or an action to the protocol layer exactly
\* when it appends a message of the session's own to the log of a channel.
C40_LogAgreesWithSent ==
    [][\A text \in SendInputs \cup SlashInputs :
         (last'.op = "send" /\ SendText(text)) =>
         ((\E k \in DOMAIN last'.sent : last'.sent[k].cmd \in {"privmsg", "action"})
          <=>
          (\E i \in DOMAIN channels :
               /\ i \in DOMAIN channels'
               /\ Len(channels'[i].messages) = Len(channels[i].messages) + 1
               /\ channels'[i].messages[Len(channels'[i].messages)].isSelf))]_vars

=============================================================================
